---------------------------- MODULE Spec2Model ----------------------------
(***************************************************************************)
(* Fuel bill generator: the amount distributor, the date/time allocator,   *)
(* the input validator, the PDF merger, the generateBills orchestrator and *)
(* the page of the front end.                                              *)
(*                                                                         *)
(* Money is counted in half cents (Cent = 2 units), so that the rounding   *)
(* Math.round(x * 100) / 100 is a real operation of the model.  Dates are  *)
(* day numbers, timestamps are counted in quarters of a day, and the host  *)
(* timezone offset is a number of quarters.  The repository holds two      *)
(* revisions of the date generator and of the validator; dateRev and       *)
(* validatorRev say which one runs.                                        *)
(***************************************************************************)
EXTENDS Integers, Sequences, FiniteSets, TLC

VARIABLES
    \* ---- distributeAmount (one call)
    totalAmount, numberOfBills, maxAmountPerBill,
    amounts, remaining, di, dpc, dError,
    \* ---- generateUniqueDates (one call), on a host with offset tzOffset,
    \* in the revision dateRev of the date generator
    count, startDate, endDate, minDaysApart, tzOffset, dateRev,
    dates, usedDates, attempts, gpc, gError,
    \* ---- mergePDFs (one call) over the files of a directory
    pdfPaths, files, mergedPdf, mi, mpc, mError, excluded,
    \* ---- POST /api/generate-bills (one request), served with the
    \* revision validatorRev of the validator
    formData, validatorRev, validation, spc, response,
    \* ---- generateBills: the runs (batches) made one after the other on
    \* the download directory, which is the variable files
    batch, params, bpc, bi, attempt, billInfo, generatedBills,
    browser, openPages, waitTime, result, bError,
    \* downloads that the browser has not finished when the wait is over
    pending,
    \* history of the current run: the attempts, failures and waits of
    \* each unit, and whether the merge was invoked
    attemptsOf, failuresOf, waitsOf, mergeInvoked,
    \* ---- generateBills: the runs of requests served at the same time on
    \* the download directory, and the downloads that the browsers have
    \* begun and not finished
    run, downloading,
    \* ---- the page of the front end: the values of the form's inputs, the
    \* generate button, the calls of handleSubmit, the requests in flight,
    \* what the page shows, and the timers that reset the form
    form, button, handlers, submitted, inFlight,
    errorsShown, successShown, progress, resetTimers

distVars == <<totalAmount, numberOfBills, maxAmountPerBill,
              amounts, remaining, di, dpc, dError>>

dateVars == <<count, startDate, endDate, minDaysApart, tzOffset, dateRev,
              dates, usedDates, attempts, gpc, gError>>

mergeVars == <<pdfPaths, files, mergedPdf, mi, mpc, mError, excluded>>

mergeLocals == <<pdfPaths, mergedPdf, mi, mpc, mError, excluded>>

serverVars == <<formData, validatorRev, validation, spc, response>>

billVars == <<batch, params, bpc, bi, attempt, billInfo, generatedBills,
              browser, openPages, waitTime, result, bError, pending,
              attemptsOf, failuresOf, waitsOf, mergeInvoked>>

concVars == <<run, downloading>>

pageVars == <<form, button, handlers, submitted, inFlight,
              errorsShown, successShown, progress, resetTimers>>

vars == <<distVars, dateVars, mergeVars, serverVars, billVars, concVars,
          pageVars>>

---------------------------------------------------------------------------
(* Bounds of the model                                                     *)

MaxTotalAmount == 8
MaxPerBill == 6
MaxBills == 3

\* generateUniqueDates: the largest count, the longest range in days, the
\* largest spacing, and the resolution of Math.random() in time draws.
MaxCount == 2
MaxRangeDays == 3
MaxSpacing == 3
RandomResolution == 960

\* generateBills: the most runs on one download directory, the most bills
\* of a run, and the most downloads left unfinished at a time.
MaxBatches == 2
MaxUnits == 2
MaxPending == 1

\* The most requests served at the same time.
MaxRequests == 2

\* mergePDFs: the most input paths, and the most pages of a document.
MaxInputs == 3
MaxPages == 2
MaxSubmissions == 2

---------------------------------------------------------------------------
(* Arithmetic helpers                                                      *)

Min(a, b) == IF a <= b THEN a ELSE b
Max(a, b) == IF a >= b THEN a ELSE b
Abs(a) == IF a < 0 THEN -a ELSE a

RECURSIVE SumSeq(_)
SumSeq(s) == IF s = <<>> THEN 0 ELSE Head(s) + SumSeq(Tail(s))

\* One cent, in the model's money unit (half cents).
Cent == 2

\* Math.round(x * 100) / 100: round to the nearest cent, halves upwards
\* (Math.round rounds .5 towards +infinity, also for negative numbers).
Round2(x) == Cent * ((2 * x + Cent) \div (2 * Cent))

---------------------------------------------------------------------------
(* distributeAmount(totalAmount, numberOfBills, maxAmountPerBill)          *)

\* const minAmountPerBill = 0.01
MinAmountPerBill == Cent

\* The pairs (maxAmountPerBill, numberOfBills) of the model whose product in
\* IEEE-754 double arithmetic lies below the exact product (0.7 * 3 is
\* 2.0999999999999996).
ProductRoundsDown == { <<140, 3>> }

\* maxAmountPerBill * numberOfBills < totalAmount, as JavaScript evaluates
\* it: the double product is compared with the double nearest to the total.
ProductBelow(maxPer, bills, total) ==
    \/ maxPer * bills < total
    \/ maxPer * bills = total /\ <<maxPer, bills>> \in ProductRoundsDown

\* Mutant: the feasibility check maxAmountPerBill * numberOfBills <
\* totalAmount is missing.
DistributeInputErrorNoFeasibility(total, bills, maxPer) ==
    IF total <= 0 THEN "TotalNotPositive"
    ELSE IF bills < 1 THEN "CountBelowOne"
    ELSE IF maxPer <= 0 THEN "MaxNotPositive"
    ELSE "ok"

\* The four input checks, in the order of the code; "ok" when none throws.
DistributeInputError(total, bills, maxPer) ==
    IF total <= 0 THEN "TotalNotPositive"
    ELSE IF bills < 1 THEN "CountBelowOne"
    ELSE IF maxPer <= 0 THEN "MaxNotPositive"
    ELSE IF ProductBelow(maxPer, bills, total) THEN "MaxTimesCountBelowTotal"
    ELSE "ok"

\* Mutant: nothing is held back for the bills still to come.
MaxForThisBillNoReserve(rem, remainingBills, maxPer) ==
    Min(maxPer, rem)

\* Math.min(maxAmountPerBill, remaining - remainingBills * minAmountPerBill)
MaxForThisBill(rem, remainingBills, maxPer) ==
    Min(maxPer, rem - remainingBills * MinAmountPerBill)

\* Mutant: the lower bound ignores what the later bills can still take.
MinForThisBillOneCent(rem, remainingBills, maxPer) ==
    MinAmountPerBill

\* Math.max(minAmountPerBill, remaining - remainingBills * maxAmountPerBill)
MinForThisBill(rem, remainingBills, maxPer) ==
    Max(MinAmountPerBill, rem - remainingBills * maxPer)

\* The values Math.round((lo + Math.random() * (hi - lo)) * 100) / 100 can
\* take: the random amount lies between lo and hi (whichever is smaller
\* first), and rounding is monotone, so every cent between the two rounded
\* ends can come out.
RandomAmounts(lo, hi) ==
    { c \in Round2(Min(lo, hi)) .. Round2(Max(lo, hi)) : c % Cent = 0 }

\* Mutant: the final validation stops before the last bill.
FinalValidationErrorSkipsLast(as, maxPer) ==
    IF \E k \in 1..(Len(as) - 1) : as[k] <= 0 \/ as[k] > maxPer
    THEN "AmountNotPositive"
    ELSE "ok"

\* The final validation loop: the first bill whose amount is not positive
\* or exceeds the maximum makes the call throw.
FinalValidationError(as, maxPer) ==
    IF \E k \in 1..Len(as) : as[k] <= 0 \/ as[k] > maxPer
    THEN LET k == CHOOSE j \in 1..Len(as) :
                    /\ (as[j] <= 0 \/ as[j] > maxPer)
                    /\ \A h \in 1..(j-1) : ~(as[h] <= 0 \/ as[h] > maxPer)
         IN IF as[k] <= 0 THEN "AmountNotPositive" ELSE "AmountExceedsMax"
    ELSE "ok"

\* The sum verification: when the rounded sum is off the rounded total by
\* more than a cent, the difference is added to the last bill.
SumCorrected(as, total) ==
    LET roundedSum == Round2(SumSeq(as))
        roundedTotal == Round2(total)
        diff == roundedTotal - roundedSum
        n == Len(as)
    IN IF Abs(roundedSum - roundedTotal) > Cent
       THEN [as EXCEPT ![n] = Round2(as[n] + diff)]
       ELSE as

\* The worked examples of the documentation, in half cents:
\* distribute(100.00, 3, 10.00) and distribute(100.00, 1, 100.00); and
\* distribute(2.10, 3, 0.70), a request at the boundary of feasibility.
DistExamples == { <<20000, 3, 2000>>, <<20000, 1, 20000>>, <<420, 3, 140>> }

NoError == [kind |-> "none"]

\* No call of generateUniqueDates is in progress.
DatesIdle ==
    /\ count = 0 /\ startDate = 0 /\ endDate = 0 /\ minDaysApart = 0
    /\ tzOffset = 0 /\ dateRev = "part_002"
    /\ dates = <<>> /\ usedDates = {} /\ attempts = 0
    /\ gpc = "idle" /\ gError = NoError

\* No call of mergePDFs is in progress, and no file exists.
MergeIdle ==
    /\ pdfPaths = <<>> /\ files = <<>> /\ mergedPdf = <<>>
    /\ mi = 0 /\ mpc = "idle" /\ mError = NoError /\ excluded = <<>>

NullBill == [billNumber |-> 0, fileName |-> [kind |-> "none", number |-> 0]]
NoResult == [success |-> FALSE, bills |-> <<>>,
             mergedPdf |-> [kind |-> "none", number |-> 0]]

\* generateBills is never called.
BillsIdle ==
    /\ batch = 0 /\ params = [numberOfBills |-> 0] /\ bpc = "off"
    /\ bi = 0 /\ attempt = 0 /\ billInfo = NullBill
    /\ generatedBills = <<>> /\ browser = "null" /\ openPages = 0
    /\ waitTime = 0 /\ result = NoResult /\ bError = "none"
    /\ pending = {}
    /\ attemptsOf = <<>> /\ failuresOf = <<>> /\ waitsOf = <<>>
    /\ mergeInvoked = FALSE

\* The requests served at the same time, and a run that is not considered.
Requests == 1..MaxRequests
NoRun == [pc |-> "off", numberOfBills |-> 0, bi |-> 0, renamed |-> <<>>,
          mergedPdf |-> [kind |-> "none", number |-> 0]]

ConcIdle ==
    /\ run = [r \in Requests |-> NoRun]
    /\ downloading = {}

\* The calls of handleSubmit that the page makes, and a call not made.
Submissions == 1..MaxSubmissions
NoHandler == [pc |-> "none", numberOfBills |-> 0, i |-> 0, outcome |-> ""]

\* The inputs as the page loads them, and after form.reset().
DefaultForm ==
    [stationName |-> "", fuelRate |-> "", template |-> "",
     totalAmount |-> "", numberOfBills |-> "", maxAmountPerBill |-> "",
     startDate |-> "", endDate |-> ""]

\* The generate button and the progress indicator as the page loads them.
ReadyButton == [disabled |-> FALSE, loading |-> FALSE]
HiddenProgress == [shown |-> FALSE, current |-> 0, total |-> 0]

\* The page is loaded and never used.
PageIdle ==
    /\ form = DefaultForm /\ button = ReadyButton
    /\ handlers = [k \in Submissions |-> NoHandler]
    /\ submitted = 0 /\ inFlight = {}
    /\ errorsShown = <<>> /\ successShown = FALSE
    /\ progress = HiddenProgress /\ resetTimers = 0

\* No request is being served.
ServerIdle ==
    /\ formData = <<>> /\ validatorRev = "validator.js"
    /\ validation = [isValid |-> FALSE, errors |-> <<>>]
    /\ spc = "idle"
    /\ response = [status |-> 0, error |-> "", errors |-> <<>>]

\* No call of distributeAmount is in progress.
DistIdle ==
    /\ totalAmount = 0 /\ numberOfBills = 0 /\ maxAmountPerBill = 0
    /\ amounts = <<>> /\ remaining = 0 /\ di = 0
    /\ dpc = "idle" /\ dError = "none"

DistCall ==
    /\ \/ /\ totalAmount \in -1..MaxTotalAmount
          /\ numberOfBills \in 0..MaxBills
          /\ maxAmountPerBill \in -1..MaxPerBill
       \/ \E e \in DistExamples :
             /\ totalAmount = e[1]
             /\ numberOfBills = e[2]
             /\ maxAmountPerBill = e[3]
    /\ amounts = <<>>
    /\ remaining = 0
    /\ di = 0
    /\ dpc = "call"
    /\ dError = "none"

\* Entry: the input checks, then the initialisation of amounts and remaining.
DistributeCheckInputs ==
    /\ dpc = "call"
    /\ LET e == DistributeInputError(totalAmount, numberOfBills, maxAmountPerBill)
       IN IF e # "ok"
          THEN /\ dpc' = "thrown"
               /\ dError' = e
               /\ UNCHANGED <<amounts, remaining>>
          ELSE /\ dpc' = "loop"
               /\ dError' = "none"
               /\ amounts' = [k \in 1..numberOfBills |-> 0]
               /\ remaining' = totalAmount
    /\ di' = 0
    /\ UNCHANGED <<totalAmount, numberOfBills, maxAmountPerBill>>
    /\ UNCHANGED <<dateVars, mergeVars, serverVars, billVars, concVars,
                 pageVars>>

\* One iteration of the allocation loop (bills 0 .. numberOfBills - 2).
DistributeAllocate ==
    /\ dpc = "loop"
    /\ di < numberOfBills - 1
    /\ LET remainingBills == numberOfBills - di - 1
           hi == MaxForThisBill(remaining, remainingBills, maxAmountPerBill)
           lo == MinForThisBill(remaining, remainingBills, maxAmountPerBill)
       IN \E a \in RandomAmounts(lo, hi) :
            /\ amounts' = [amounts EXCEPT ![di + 1] = a]
            /\ remaining' = remaining - a
    /\ di' = di + 1
    /\ UNCHANGED <<totalAmount, numberOfBills, maxAmountPerBill, dpc, dError>>
    /\ UNCHANGED <<dateVars, mergeVars, serverVars, billVars, concVars,
                 pageVars>>

\* After the loop: the last bill takes the rounded remainder, the final
\* validation runs, and then the sum verification with its correction.
DistributeFinish ==
    /\ dpc = "loop"
    /\ di >= numberOfBills - 1
    /\ LET as == [amounts EXCEPT ![numberOfBills] = Round2(remaining)]
           e == FinalValidationError(as, maxAmountPerBill)
       IN IF e # "ok"
          THEN /\ dpc' = "thrown"
               /\ dError' = e
               /\ amounts' = as
          ELSE /\ dpc' = "returned"
               /\ dError' = "none"
               /\ amounts' = SumCorrected(as, totalAmount)
    /\ UNCHANGED <<totalAmount, numberOfBills, maxAmountPerBill, remaining, di>>
    /\ UNCHANGED <<dateVars, mergeVars, serverVars, billVars, concVars,
                 pageVars>>

DistNext ==
    \/ DistributeCheckInputs
    \/ DistributeAllocate
    \/ DistributeFinish

DistInit ==
    DistCall /\ DatesIdle /\ MergeIdle /\ ServerIdle /\ BillsIdle /\ ConcIdle
        /\ PageIdle

SpecDistribute == DistInit /\ [][DistNext]_vars

---------------------------------------------------------------------------
(* Claims about distributeAmount                                           *)

DistTerminated == dpc \in {"returned", "thrown"}

\* The preconditions as the claims state them.
DistPrecondition ==
    /\ totalAmount > 0
    /\ numberOfBills >= 1
    /\ maxAmountPerBill > 0
    /\ maxAmountPerBill * numberOfBills >= totalAmount

\* What a successful call is claimed to return.
DistPostcondition ==
    /\ dpc = "returned"
    /\ Len(amounts) = numberOfBills
    /\ \A k \in 1..Len(amounts) :
          amounts[k] > 0 /\ amounts[k] <= maxAmountPerBill
    /\ Abs(SumSeq(amounts) - totalAmount) <= Cent

WholeCents(x) == x % Cent = 0

\* C1 as stated: for every input in whole cents that satisfies the four
\* preconditions the call returns numberOfBills amounts, each in
\* (0, maxAmountPerBill], whose sum is within one cent of totalAmount.
C1_AsStated ==
    ( /\ DistTerminated
      /\ DistPrecondition
      /\ WholeCents(totalAmount)
      /\ WholeCents(maxAmountPerBill) )
    => DistPostcondition

\* C1 witness: distribute(2.10, 3, 0.70) satisfies the four preconditions
\* and has thrown: the input check computes 0.7 * 3 below 2.1.
C1_Witness ==
    /\ totalAmount = 420 /\ numberOfBills = 3 /\ maxAmountPerBill = 140
    /\ DistPrecondition
    /\ WholeCents(totalAmount) /\ WholeCents(maxAmountPerBill)
    /\ DistTerminated
    /\ ~DistPostcondition

\* A call that passes the input checks returns valid amounts when there is
\* one cent for every bill (totalAmount >= numberOfBills x 0.01).
C1_DistributeReturnsValidAmounts ==
    ( /\ DistTerminated
      /\ DistPrecondition
      /\ WholeCents(totalAmount)
      /\ WholeCents(maxAmountPerBill)
      /\ totalAmount >= numberOfBills * MinAmountPerBill
      /\ dError # "MaxTimesCountBelowTotal" )
    => DistPostcondition

\* A call on a feasible whole-cent request has gone through the allocation
\* loop and returned.
FeasibleCallReturned ==
    /\ dpc = "returned"
    /\ numberOfBills = 3
    /\ totalAmount = 4 * Cent
    /\ maxAmountPerBill = 2 * Cent
    /\ amounts = <<2 * Cent, Cent, Cent>>

\* C7: when an input check is violated the call has thrown the error of a
\* violated inequality, with no amounts array and nothing allocated.
C7_InfeasibleDistributionFails ==
    (dpc # "call" /\ ~DistPrecondition) =>
        /\ dpc = "thrown"
        /\ amounts = <<>> /\ remaining = 0 /\ di = 0
        /\ \/ dError = "TotalNotPositive" /\ totalAmount <= 0
           \/ dError = "CountBelowOne" /\ numberOfBills < 1
           \/ dError = "MaxNotPositive" /\ maxAmountPerBill <= 0
           \/ /\ dError = "MaxTimesCountBelowTotal"
              /\ maxAmountPerBill * numberOfBills < totalAmount

\* C7 witness: distribute(100.00, 3, 10.00) has failed on 10 x 3 < 100.
C7_Witness ==
    /\ totalAmount = 20000 /\ numberOfBills = 3 /\ maxAmountPerBill = 2000
    /\ dpc = "thrown"
    /\ dError = "MaxTimesCountBelowTotal"

AllocationStep == dpc = "loop" /\ di' = di + 1

\* What the bounds of one iteration are claimed to guarantee: the lower
\* bound does not exceed the upper bound, the amount assigned lies between
\* them, and what remains can still be split among the bills to come.
LoopBoundsKept ==
    LET remainingBills == numberOfBills - di - 1
        hi == MaxForThisBill(remaining, remainingBills, maxAmountPerBill)
        lo == MinForThisBill(remaining, remainingBills, maxAmountPerBill)
    IN /\ lo <= hi
       /\ lo <= amounts'[di + 1] /\ amounts'[di + 1] <= hi
       /\ remaining' = remaining - amounts'[di + 1]
       /\ remainingBills * MinAmountPerBill <= remaining'
       /\ remaining' <= remainingBills * maxAmountPerBill

\* C21 as stated: on every whole-cent request that satisfies the four
\* preconditions, every iteration of the allocation loop keeps the bounds.
C21_AsStated ==
    [][ ( /\ AllocationStep
          /\ DistPrecondition
          /\ WholeCents(totalAmount)
          /\ WholeCents(maxAmountPerBill) )
        => LoopBoundsKept ]_vars

\* C21 amended: the same, when in addition totalAmount >= numberOfBills x
\* 0.01: at every bill but the last the lower bound is at most the upper
\* bound, the amount assigned lies in [lower, upper], and the remaining
\* amount stays within [remainingBills x 0.01, remainingBills x
\* maxAmountPerBill].
C21_LoopBoundsKept ==
    [][ ( /\ AllocationStep
          /\ DistPrecondition
          /\ WholeCents(totalAmount)
          /\ WholeCents(maxAmountPerBill)
          /\ totalAmount >= numberOfBills * MinAmountPerBill )
        => LoopBoundsKept ]_vars

\* C21 witness: the second bill of three has been allocated with both
\* bounds binding (0.04 over three bills of at most 0.02: after 0.02 for
\* the first bill, the second can only take 0.01).
C21_Witness ==
    /\ dpc = "loop" /\ di = 2
    /\ numberOfBills = 3
    /\ totalAmount = 4 * Cent
    /\ maxAmountPerBill = 2 * Cent
    /\ amounts = <<2 * Cent, Cent, 0>>
    /\ remaining = Cent

\* The request is at the boundary of feasibility: the total is exactly
\* maxAmountPerBill x numberOfBills.
AtBoundary ==
    /\ totalAmount > 0 /\ numberOfBills >= 1 /\ maxAmountPerBill > 0
    /\ WholeCents(totalAmount) /\ WholeCents(maxAmountPerBill)
    /\ totalAmount = maxAmountPerBill * numberOfBills

EveryAmountIsMax ==
    /\ dpc = "returned"
    /\ Len(amounts) = numberOfBills
    /\ \A k \in 1..Len(amounts) : amounts[k] = maxAmountPerBill

\* C25: when the total equals maxAmountPerBill x numberOfBills exactly, the
\* call succeeds and every amount equals maxAmountPerBill.
C25_BoundaryIsForced ==
    (DistTerminated /\ AtBoundary) => EveryAmountIsMax

\* C25 witness: distribute(2.10, 3, 0.70) has been rejected by the input
\* check, the double product 0.7 * 3 being below 2.1.
C25_Witness ==
    /\ totalAmount = 420 /\ numberOfBills = 3 /\ maxAmountPerBill = 140
    /\ AtBoundary
    /\ dpc = "thrown"
    /\ dError = "MaxTimesCountBelowTotal"

\* At the boundary every call that passes the input checks returns
\* maxAmountPerBill for every bill.
BoundaryIsForcedWhenAccepted ==
    (DistTerminated /\ AtBoundary /\ dError # "MaxTimesCountBelowTotal")
        => EveryAmountIsMax

\* distribute(100.00, 1, 100.00) has returned [100.00].
BoundaryExampleReturned ==
    /\ totalAmount = 20000 /\ numberOfBills = 1
    /\ maxAmountPerBill = 20000
    /\ dpc = "returned" /\ amounts = <<20000>>

---------------------------------------------------------------------------
(* The date generator.  A date string YYYY-MM-DD is its day number; a      *)
(* Date object is its timestamp, counted in quarters of a day.             *)

\* 1000 * 60 * 60 * 24 milliseconds, in the model's unit of time.
QuartersPerDay == 4

\* The two revisions of the date generator in the repository.
DateRevs == {"dateGenerator.js", "part_002"}

\* The host's timezone offsets (local time minus UTC), in quarters.
TzOffsets == {-1, 0, 1}

\* new Date("YYYY-MM-DD").getTime() and parseDate(dateStr).getTime(): a
\* date-only string is midnight UTC of that day.
ParseDate(dateStr) == dateStr * QuartersPerDay

\* getFullYear()/getMonth()/getDate(): the calendar day of a timestamp in
\* the host's local time.
LocalDateOf(ts, tz) == (ts + tz) \div QuartersPerDay

\* getUTCFullYear()/getUTCMonth()/getUTCDate(): the calendar day in UTC.
UTCDateOf(ts) == ts \div QuartersPerDay

\* startTimestamp + Math.random() * (endTimestamp - startTimestamp): any
\* instant from the start on; floating-point rounding of the sum can also
\* give endTimestamp itself.  Instants of one quarter are alike.
RandomTimestamps(startTs, endTs) == startTs..endTs

\* generateRandomDate of part_002: the whole days between the random
\* timestamp and the start are added to the start date in UTC.
GenerateRandomDateFixed(ts, start, tz) ==
    LET daysDiff == (ts - ParseDate(start)) \div QuartersPerDay
    IN UTCDateOf(ParseDate(start) + daysDiff * QuartersPerDay)

\* generateRandomDate of src/utils/dateGenerator.js: the random timestamp
\* is formatted with the local-time getters.
GenerateRandomDateLocal(ts, start, tz) ==
    LocalDateOf(ts, tz)

GenerateRandomDate(rev, ts, start, tz) ==
    IF rev = "part_002"
    THEN GenerateRandomDateFixed(ts, start, tz)
    ELSE GenerateRandomDateLocal(ts, start, tz)

\* formatDateForDisplay: the day shown as DD/MM/YYYY.  part_002 splits the
\* string; src/utils/dateGenerator.js goes through new Date and the
\* local-time getters.
FormatDateForDisplay(rev, dateStr, tz) ==
    IF rev = "part_002"
    THEN dateStr
    ELSE LocalDateOf(ParseDate(dateStr), tz)

\* Math.random(), as a numerator over RandomResolution: the least value and
\* the greatest value below 1.
RandomSamples == {0, RandomResolution - 1}

\* generateRandomTime: hour = 6 + floor(random * (22 - 6)),
\* minute = floor(random * 60).
MinHour == 6
MaxHour == 22
MinutesPerHour == 60

GenerateRandomTime(r1, r2) ==
    [hour |-> MinHour + (r1 * (MaxHour - MinHour)) \div RandomResolution,
     minute |-> (r2 * MinutesPerHour) \div RandomResolution]

\* Mutant: a date exactly minDaysApart days from another is refused.
IsDateProperlySpacedStrict(newDate, existingDates, minDays) ==
    \A k \in 1..Len(existingDates) :
        ~( Abs(ParseDate(newDate) - ParseDate(existingDates[k].date))
             <= minDays * QuartersPerDay )

\* isDateProperlySpaced(newDate, existingDates, minDaysApart)
IsDateProperlySpaced(newDate, existingDates, minDays) ==
    \A k \in 1..Len(existingDates) :
        ~( Abs(ParseDate(newDate) - ParseDate(existingDates[k].date))
             < minDays * QuartersPerDay )

\* dates.sort((a, b) => parse(a.date) - parse(b.date)): insertion of each
\* element after the elements that do not compare greater.
RECURSIVE InsertByDate(_, _)
InsertByDate(x, s) ==
    IF s = <<>> THEN <<x>>
    ELSE IF ParseDate(x.date) < ParseDate(Head(s).date)
         THEN <<x>> \o s
         ELSE <<Head(s)>> \o InsertByDate(x, Tail(s))

RECURSIVE SortByDate(_)
SortByDate(s) ==
    IF s = <<>> THEN <<>>
    ELSE InsertByDate(s[Len(s)], SortByDate(SubSeq(s, 1, Len(s) - 1)))

\* const maxAttempts = count * 100
AttemptsPerDate == 100
MaxAttempts(n) == n * AttemptsPerDate

\* Math.floor((end.getTime() - start.getTime()) / (1000 * 60 * 60 * 24))
TotalDays(start, end) ==
    (ParseDate(end) - ParseDate(start)) \div QuartersPerDay

\* (count - 1) * minDaysApart
MinRequiredDays(n, minDays) == (n - 1) * minDays

\* Mutant: the range check asks for one spacing less than is needed.
ScheduleInputErrorLenient(n, start, end, minDays) ==
    IF ParseDate(end) < ParseDate(start)
    THEN [kind |-> "EndBeforeStart"]
    ELSE IF TotalDays(start, end) < MinRequiredDays(n - 1, minDays)
    THEN [kind |-> "RangeTooSmall",
          needDays |-> MinRequiredDays(n, minDays) + 1,
          currentDays |-> TotalDays(start, end) + 1]
    ELSE [kind |-> "ok"]

\* The input checks of generateUniqueDates, in the order of the code.  The
\* range error names the days needed and the days given.
ScheduleInputError(n, start, end, minDays) ==
    IF ParseDate(end) < ParseDate(start)
    THEN [kind |-> "EndBeforeStart"]
    ELSE IF TotalDays(start, end) < MinRequiredDays(n, minDays)
    THEN [kind |-> "RangeTooSmall",
          needDays |-> MinRequiredDays(n, minDays) + 1,
          currentDays |-> TotalDays(start, end) + 1]
    ELSE [kind |-> "ok"]

\* The infeasible example of the documentation: 5 dates in 2025-01-01 ..
\* 2025-01-05 with 3-day spacing, the first of January being day 0.
DateExamples == { <<5, 0, 4, 3>> }

\* A call generateUniqueDates(count, startDate, endDate, minDaysApart);
\* day 0 is the start date.
DatesCall ==
    /\ \/ /\ count \in 1..MaxCount
          /\ startDate = 0
          /\ endDate \in -1..MaxRangeDays
          /\ minDaysApart \in 0..MaxSpacing
       \/ \E e \in DateExamples :
            /\ count = e[1] /\ startDate = e[2]
            /\ endDate = e[3] /\ minDaysApart = e[4]
    /\ tzOffset \in TzOffsets
    /\ dateRev \in DateRevs
    /\ dates = <<>> /\ usedDates = {} /\ attempts = 0
    /\ gpc = "call" /\ gError = NoError

\* Entry: the input checks.
DatesCheckInputs ==
    /\ gpc = "call"
    /\ LET e == ScheduleInputError(count, startDate, endDate, minDaysApart)
       IN IF e.kind # "ok"
          THEN gpc' = "thrown" /\ gError' = e
          ELSE gpc' = "loop" /\ gError' = NoError
    /\ UNCHANGED <<count, startDate, endDate, minDaysApart, tzOffset, dateRev,
                   dates, usedDates, attempts>>
    /\ UNCHANGED <<distVars, mergeVars, serverVars, billVars, concVars,
                 pageVars>>

\* The code after the loop, entered when the loop condition fails: the
\* exhaustion error, or the sort and the return (the locals usedDates and
\* attempts end with the call).
DatesAfterLoop(ds, used, att) ==
    IF Len(ds) < count
    THEN /\ gpc' = "thrown"
         /\ gError' = [kind |-> "GenerationExhausted",
                       attempts |-> MaxAttempts(count)]
         /\ dates' = ds /\ usedDates' = used /\ attempts' = att
    ELSE /\ gpc' = "returned"
         /\ gError' = NoError
         /\ dates' = SortByDate(ds)
         /\ usedDates' = {}
         /\ attempts' = 0

\* Mutant: the loop condition does not test the number of dates found.
DatesLoopStepIgnoresCount(ds, used, att) ==
    IF att < MaxAttempts(count)
    THEN /\ dates' = ds /\ usedDates' = used /\ attempts' = att
         /\ UNCHANGED <<gpc, gError>>
    ELSE DatesAfterLoop(ds, used, att)

\* The loop goes on with the given locals, or ends.
DatesLoopStep(ds, used, att) ==
    IF Len(ds) < count /\ att < MaxAttempts(count)
    THEN /\ dates' = ds /\ usedDates' = used /\ attempts' = att
         /\ UNCHANGED <<gpc, gError>>
    ELSE DatesAfterLoop(ds, used, att)

\* One iteration of the sampling loop: a draw, and its acceptance with a
\* random time when the date is new and properly spaced; then the test of
\* the loop condition.
DatesDraw ==
    /\ gpc = "loop"
    /\ Len(dates) < count
    /\ attempts < MaxAttempts(count)
    /\ \E ts \in RandomTimestamps(ParseDate(startDate), ParseDate(endDate)) :
         LET randomDate == GenerateRandomDate(dateRev, ts, startDate, tzOffset)
         IN IF /\ randomDate \notin usedDates
               /\ IsDateProperlySpaced(randomDate, dates, minDaysApart)
            THEN \E r1 \in RandomSamples, r2 \in RandomSamples :
                   DatesLoopStep(
                     Append(dates,
                        [date |-> randomDate,
                         time |-> GenerateRandomTime(r1, r2),
                         dateFormatted |->
                            FormatDateForDisplay(dateRev, randomDate, tzOffset)]),
                     usedDates \cup {randomDate},
                     attempts + 1)
            ELSE DatesLoopStep(dates, usedDates, attempts + 1)
    /\ UNCHANGED <<count, startDate, endDate, minDaysApart, tzOffset, dateRev>>
    /\ UNCHANGED <<distVars, mergeVars, serverVars, billVars, concVars,
                 pageVars>>

DatesNext ==
    \/ DatesCheckInputs
    \/ DatesDraw

DatesInit ==
    DatesCall /\ DistIdle /\ MergeIdle /\ ServerIdle /\ BillsIdle /\ ConcIdle
        /\ PageIdle

SpecDates == DatesInit /\ [][DatesNext]_vars

\* The call runs on: a statement of generateUniqueDates that can be executed
\* is executed (the function has no await and nothing preempts it).
\* Termination does not depend on the host: the calls on the hosts at and
\* behind UTC are followed to their end.
DatesFairInit == DatesInit /\ tzOffset <= 0

SpecDatesFair == DatesFairInit /\ [][DatesNext]_vars /\ WF_vars(DatesNext)

---------------------------------------------------------------------------
(* Properties of generateUniqueDates                                       *)

DatesReturned == gpc = "returned"

SlotsSorted ==
    \A j \in 1..Len(dates), k \in 1..Len(dates) :
        j < k => dates[j].date <= dates[k].date

SlotsDistinct ==
    \A j \in 1..Len(dates), k \in 1..Len(dates) :
        j # k => dates[j].date # dates[k].date

SlotsInRange ==
    \A k \in 1..Len(dates) :
        startDate <= dates[k].date /\ dates[k].date <= endDate

SlotsSpaced ==
    \A j \in 1..Len(dates), k \in 1..Len(dates) :
        j # k => Abs(dates[j].date - dates[k].date) >= minDaysApart

SlotsInBusinessHours ==
    \A k \in 1..Len(dates) :
        /\ dates[k].time.hour \in 6..21
        /\ dates[k].time.minute \in 0..59

\* C2: every result that generateUniqueDates returns has exactly count
\* slots, sorted ascending by date, with pairwise distinct dates inside
\* [startDate, endDate], any two at least minDaysApart days apart, and each
\* time with hour in 06..21 and minute in 00..59.
C2_ReturnedSlotsValid ==
    DatesReturned =>
        /\ Len(dates) = count
        /\ SlotsSorted
        /\ SlotsDistinct
        /\ SlotsInRange
        /\ SlotsSpaced
        /\ SlotsInBusinessHours

\* C2, the failing case: src/utils/dateGenerator.js, on a host west of
\* Greenwich, asked for one date on 2025-01-01 .. 2025-01-01, returns the
\* day before.
C2_Witness ==
    /\ DatesReturned
    /\ dateRev = "dateGenerator.js" /\ tzOffset < 0
    /\ count = 1 /\ startDate = 0 /\ endDate = 0
    /\ Len(dates) = 1 /\ dates[1].date = -1

\* The revision of part_002 returns only valid results, on every host.
ReturnedSlotsValidInPart002 ==
    dateRev = "part_002" => C2_ReturnedSlotsValid

\* The request cannot be scheduled: the spacing needs more days than the
\* range has, or the range ends before it starts.
ScheduleInfeasible ==
    \/ (count - 1) * minDaysApart > endDate - startDate
    \/ endDate < startDate

DatesCalled == gpc \notin {"idle", "call"}

NothingDrawn == dates = <<>> /\ usedDates = {} /\ attempts = 0

\* C8 as stated: every infeasible request fails with the error that names
\* the minimum range required.
C8_AsStated ==
    (DatesCalled /\ ScheduleInfeasible) =>
        /\ gpc = "thrown"
        /\ gError.kind = "RangeTooSmall"
        /\ NothingDrawn

\* C8: an infeasible request fails without drawing any date and without
\* returning any slot; when the range ends before it starts the error says
\* so, and otherwise the error names the minimum range required,
\* (count - 1) * minDaysApart + 1 days, and the days of the range given.
C8_InfeasibleScheduleFails ==
    (DatesCalled /\ ScheduleInfeasible) =>
        /\ gpc = "thrown"
        /\ NothingDrawn
        /\ IF endDate < startDate
           THEN gError = [kind |-> "EndBeforeStart"]
           ELSE gError = [kind |-> "RangeTooSmall",
                          needDays |-> (count - 1) * minDaysApart + 1,
                          currentDays |-> endDate - startDate + 1]

\* C8, the documented example: 5 dates in a 5-day range with spacing 3 need
\* at least 13 days.
C8_Witness ==
    /\ count = 5 /\ startDate = 0 /\ endDate = 4 /\ minDaysApart = 3
    /\ gpc = "thrown"
    /\ gError = [kind |-> "RangeTooSmall", needDays |-> 13, currentDays |-> 5]
    /\ NothingDrawn

\* The date string and the display form that one random timestamp gives
\* on a host with the offset tz.
DateOn(ts, tz) == GenerateRandomDate(dateRev, ts, startDate, tz)
DisplayOn(ts, tz) == FormatDateForDisplay(dateRev, DateOn(ts, tz), tz)

\* The same random timestamp gives the same date string and the same
\* display form on every host, and a date of the range.
SameDateOnEveryHost ==
    \A ts \in RandomTimestamps(ParseDate(startDate), ParseDate(endDate)) :
        \A tz1 \in TzOffsets, tz2 \in TzOffsets :
            /\ DateOn(ts, tz1) = DateOn(ts, tz2)
            /\ DisplayOn(ts, tz1) = DisplayOn(ts, tz2)
            /\ DateOn(ts, tz1) \in startDate..endDate

\* The dates accepted so far lie in the range and are displayed as the
\* day they are.
AcceptedDatesAsDrawn ==
    \A k \in 1..Len(dates) :
        /\ dates[k].date \in startDate..endDate
        /\ dates[k].dateFormatted = dates[k].date

\* C17: date generation is timezone-invariant: for the same range and the
\* same random draws the date strings, their display forms and with them
\* the decisions to accept or reject are the same for every host timezone
\* offset, and no offset puts a date outside [startDate, endDate].
C17_TimezoneInvariant ==
    DatesCalled => SameDateOnEveryHost /\ AcceptedDatesAsDrawn

\* C17, the failing case: src/utils/dateGenerator.js on a host behind UTC
\* has returned, for the first instant of the start date, the day before,
\* displayed as the day before that.
C17_Witness ==
    /\ DatesReturned
    /\ dateRev = "dateGenerator.js" /\ tzOffset = -1
    /\ count = 2 /\ startDate = 0 /\ endDate = 3
    /\ dates[1].date = -1 /\ dates[1].dateFormatted = -2
    /\ dates[2].date = 2

\* The revision of src/unnamed/part_002 is timezone-invariant.
TimezoneInvariantInPart002 ==
    dateRev = "part_002" => C17_TimezoneInvariant

\* The dates that one draw of generateRandomDate(startDate, endDate) can
\* give on this host.
DrawnDates ==
    { GenerateRandomDate(dateRev, ts, startDate, tzOffset) :
        ts \in RandomTimestamps(ParseDate(startDate), ParseDate(endDate)) }

\* C22: every draw of generateRandomDate gives a date of the inclusive
\* range [startDate, endDate], and every date of the range, endDate
\* included, can be drawn; so every date accepted lies in the range.
C22_DrawsCoverRange ==
    (DatesCalled /\ startDate <= endDate) =>
        /\ DrawnDates = startDate..endDate
        /\ \A k \in 1..Len(dates) : dates[k].date \in startDate..endDate

\* C22, the failing case: src/utils/dateGenerator.js on a host behind UTC
\* has drawn, for the range 2025-01-01 .. 2025-01-03, the day before the
\* start, and the loop has accepted it; the end date cannot be drawn there.
C22_Witness ==
    /\ gpc = "loop"
    /\ dateRev = "dateGenerator.js" /\ tzOffset = -1
    /\ count = 2 /\ startDate = 0 /\ endDate = 2
    /\ Len(dates) = 1 /\ dates[1].date = -1
    /\ -1 \in DrawnDates /\ endDate \notin DrawnDates

\* In the revision of src/unnamed/part_002 the draws are exactly the dates
\* of the range, on every host.
DrawsCoverRangeInPart002 ==
    dateRev = "part_002" => C22_DrawsCoverRange

\* In src/utils/dateGenerator.js the draws are the dates of the range on
\* the hosts that are not behind UTC.
DrawsCoverRangeAheadOfUTC ==
    (dateRev = "dateGenerator.js" /\ tzOffset >= 0) => C22_DrawsCoverRange

DatesTerminated == gpc \in {"returned", "thrown"}

\* The dates accepted so far.
AcceptedDates == { dates[k].date : k \in 1..Len(dates) }

\* The loop is bounded: never more than count x 100 draws; it goes on only
\* while fewer than count dates are accepted and fewer than count x 100
\* draws are made; a result has count slots; and the exhaustion error is
\* thrown exactly when count x 100 draws have given fewer than count dates.
DrawsBounded ==
    /\ attempts <= MaxAttempts(count)
    /\ gpc = "loop" => Len(dates) < count /\ attempts < MaxAttempts(count)
    /\ gpc = "returned" => Len(dates) = count
    /\ (gpc = "thrown" /\ gError.kind = "GenerationExhausted")
         <=> (DatesCalled /\ attempts = MaxAttempts(count)
                          /\ Len(dates) < count)
    /\ gError.kind = "GenerationExhausted"
         => gError.attempts = count * 100

\* A step never removes an accepted date, and adds at most one per draw.
AcceptedOnlyGrows ==
    /\ AcceptedDates \subseteq AcceptedDates'
    /\ Len(dates') \in {Len(dates), Len(dates) + 1}
    /\ gpc = "loop" => (gpc' = "returned" \/ attempts' = attempts + 1)

\* C23: generateUniqueDates always terminates: it makes at most count x
\* 100 draws, the accepted dates only grow, it stops as soon as count dates
\* are accepted, it fails with the exhaustion error exactly when count x
\* 100 draws gave fewer than count dates, and it never returns fewer than
\* count slots.
C23_GenerateUniqueDatesTerminates ==
    /\ []DrawsBounded
    /\ [][AcceptedOnlyGrows]_vars
    /\ <>DatesTerminated

\* C23 witness: a call has used all its count x 100 draws without finding
\* count dates and has failed with the exhaustion error.
C23_Witness ==
    /\ gpc = "thrown"
    /\ gError = [kind |-> "GenerationExhausted", attempts |-> 200]
    /\ count = 2 /\ attempts = 200 /\ Len(dates) = 1

\* After the dates of ds are accepted, n more draws exist that the loop
\* accepts one after the other.
RECURSIVE Completable(_, _)
Completable(ds, n) ==
    \/ n = 0
    \/ \E d \in DrawnDates :
          /\ \A k \in 1..Len(ds) : ds[k].date # d
          /\ IsDateProperlySpaced(d, ds, minDaysApart)
          /\ Completable(Append(ds, [date |-> d]), n - 1)

\* The loop is about to make its first draw.
LoopEntered == gpc = "loop" /\ attempts = 0 /\ dates = <<>>

\* C29 as stated: whenever the request passes the feasibility check, some
\* sequence of draws makes generateUniqueDates succeed.
C29_AsStated ==
    LoopEntered => Completable(<<>>, count)

\* C29 amended: whenever the request passes the feasibility check and the
\* range has at least count dates, count draws exist (fewer than count x
\* 100) that the loop accepts one after the other, so that the call
\* returns; this includes the tight case (count - 1) x minDaysApart =
\* days of the range.
C29_FeasibleCanSucceed ==
    (LoopEntered /\ count <= endDate - startDate + 1)
        => Completable(<<>>, count) /\ count <= MaxAttempts(count)

\* C29 witness: the tight request for 2 dates 3 days apart in 2025-01-01 ..
\* 2025-01-04 has been served, by the revision of part_002, with the first
\* and the last day of the range.
C29_Witness ==
    /\ DatesReturned
    /\ dateRev = "part_002"
    /\ count = 2 /\ startDate = 0 /\ endDate = 3 /\ minDaysApart = 3
    /\ dates[1].date = 0 /\ dates[2].date = 3

\* The request for 2 dates on the single day 2025-01-01 with no spacing
\* has passed the feasibility check and exhausted its 200 draws.
SingleDayForTwoExhausted ==
    /\ count = 2 /\ startDate = 0 /\ endDate = 0 /\ minDaysApart = 0
    /\ gpc = "thrown" /\ gError.kind = "GenerationExhausted"

---------------------------------------------------------------------------
(* The PDF merger.  A document is the sequence of its pages; a page is     *)
(* <<path of its source file, page number>>.                               *)

\* The input files of a merge, and the file the merge writes.
InputPaths == {"a.pdf", "b.pdf", "c.pdf"}
OutputPath == "merged.pdf"

\* What a path of the directory holds: a PDF document, bytes that are no
\* PDF, or nothing.
PdfFile(pages) == [kind |-> "pdf", pages |-> pages]
CorruptFile == [kind |-> "corrupt"]
AbsentFile == [kind |-> "absent"]

\* A source document of n pages stored at path.
SourceDocument(path, n) == PdfFile([k \in 1..n |-> <<path, k>>])

FileContents(path) ==
    {SourceDocument(path, n) : n \in 0..MaxPages} \cup {CorruptFile, AbsentFile}

\* All sequences over S of length at most n.
SeqsUpTo(S, n) == UNION {[1..k -> S] : k \in 0..n}

\* fs.readFileSync(pdfPath) and PDFDocument.load(pdfBytes): the failure of
\* the read or of the parse, or "ok".
LoadError(file) ==
    IF file.kind = "absent" THEN "ENOENT: no such file or directory"
    ELSE IF file.kind = "corrupt" THEN "Failed to parse PDF document"
    ELSE "ok"

\* The error of the catch block of mergePDFs, `Failed to merge PDFs:
\* ${error.message}`: the message of the cause and what that message
\* names, which is the path of a file that could not be opened and nothing
\* for bytes that could not be parsed.
FailedToMerge(file, path) ==
    [kind |-> "FailedToMergePDFs",
     cause |-> LoadError(file),
     path |-> IF file.kind = "absent" THEN path ELSE ""]

\* mergedPdf.copyPages(pdf, pdf.getPageIndices()): the pages of the source
\* at the indices 0 .. pageCount - 1, in that order.
CopyPages(file) == [k \in 1..Len(file.pages) |-> file.pages[k]]

\* Mutant: a page is added in front of the pages that are there.
AddPageInFront(doc, page) == <<page>> \o doc

\* mergedPdf.addPage(page): the page becomes the last page.
AddPage(doc, page) == Append(doc, page)

\* copiedPages.forEach((page) => mergedPdf.addPage(page))
RECURSIVE AddPages(_, _)
AddPages(doc, pages) ==
    IF pages = <<>> THEN doc
    ELSE AddPages(AddPage(doc, Head(pages)), Tail(pages))

\* The empty page that save() adds to a document without pages.
BlankPage == <<"blank", 1>>

\* mergedPdf.save(), whose addDefaultPage option is left at its default: a
\* document without pages is serialized with one blank page.
Save(doc) == IF Len(doc) = 0 THEN <<BlankPage>> ELSE doc

\* A call mergePDFs(pdfPaths, outputPath) on a directory of files.
MergeCall ==
    /\ pdfPaths \in SeqsUpTo(InputPaths, MaxInputs)
    /\ \E fa \in FileContents("a.pdf"), fb \in FileContents("b.pdf"),
          fc \in FileContents("c.pdf") :
         files = [p \in InputPaths \cup {OutputPath} |->
                    CASE p = "a.pdf" -> fa
                      [] p = "b.pdf" -> fb
                      [] p = "c.pdf" -> fc
                      [] OTHER -> AbsentFile]
    /\ mergedPdf = <<>> /\ mi = 0 /\ mpc = "call" /\ mError = NoError
    /\ excluded = <<>>

\* const mergedPdf = await PDFDocument.create()
MergeCreate ==
    /\ mpc = "call"
    /\ mpc' = "loop"
    /\ mergedPdf' = <<>>
    /\ mi' = 0
    /\ UNCHANGED <<pdfPaths, files, mError, excluded>>
    /\ UNCHANGED <<distVars, dateVars, serverVars, billVars, concVars,
                 pageVars>>

\* One iteration of the loop over pdfPaths: read, load, copy and add the
\* pages; a failure leaves through the catch block, which throws
\* "Failed to merge PDFs: " followed by the message of the cause.
MergeAddDocument ==
    /\ mpc = "loop"
    /\ mi < Len(pdfPaths)
    /\ LET file == files[pdfPaths[mi + 1]]
       IN IF LoadError(file) # "ok"
          THEN /\ mpc' = "thrown"
               /\ mError' = FailedToMerge(file, pdfPaths[mi + 1])
               /\ UNCHANGED <<mergedPdf, mi>>
          ELSE /\ mergedPdf' = AddPages(mergedPdf, CopyPages(file))
               /\ mi' = mi + 1
               /\ UNCHANGED <<mpc, mError>>
    /\ UNCHANGED <<pdfPaths, files, excluded>>
    /\ UNCHANGED <<distVars, dateVars, serverVars, billVars, concVars,
                 pageVars>>

\* After the loop: mergedPdf.save() and fs.writeFileSync(outputPath, ...).
MergeSave ==
    /\ mpc = "loop"
    /\ mi >= Len(pdfPaths)
    /\ files' = [files EXCEPT ![OutputPath] = PdfFile(Save(mergedPdf))]
    /\ mpc' = "returned"
    /\ UNCHANGED <<pdfPaths, mergedPdf, mi, mError, excluded>>
    /\ UNCHANGED <<distVars, dateVars, serverVars, billVars, concVars,
                 pageVars>>

\* s without its i-th element.
RemoveAt(s, i) == SubSeq(s, 1, i - 1) \o SubSeq(s, i + 1, Len(s))

\* After a failed merge the caller calls mergePDFs again, with the input
\* at which the merge failed left out.
MergeRetry ==
    /\ mpc = "thrown"
    /\ pdfPaths' = RemoveAt(pdfPaths, mi + 1)
    /\ excluded' = Append(excluded, pdfPaths[mi + 1])
    /\ mpc' = "call"
    /\ mergedPdf' = <<>> /\ mi' = 0 /\ mError' = NoError
    /\ UNCHANGED files
    /\ UNCHANGED <<distVars, dateVars, serverVars, billVars, concVars,
                 pageVars>>

MergeNext ==
    \/ MergeCreate
    \/ MergeAddDocument
    \/ MergeSave
    \/ MergeRetry

MergeInit ==
    MergeCall /\ DistIdle /\ DatesIdle /\ ServerIdle /\ BillsIdle /\ ConcIdle
        /\ PageIdle

SpecMerge == MergeInit /\ [][MergeNext]_vars

---------------------------------------------------------------------------
(* Properties of mergePDFs                                                 *)

\* The pages of the documents at the given paths, one document after the
\* other.
RECURSIVE Concatenation(_)
Concatenation(paths) ==
    IF paths = <<>> THEN <<>>
    ELSE files[Head(paths)].pages \o Concatenation(Tail(paths))

\* The document under construction is the merge of the inputs taken so
\* far, and taking the next input appends its pages.
MergeInProgressIsConcatenation ==
    mpc = "loop" =>
        /\ mergedPdf = Concatenation(SubSeq(pdfPaths, 1, mi))
        /\ mi < Len(pdfPaths) /\ files[pdfPaths[mi + 1]].kind = "pdf" =>
             Concatenation(SubSeq(pdfPaths, 1, mi + 1)) =
                 mergedPdf \o files[pdfPaths[mi + 1]].pages

\* C10 as stated: the merged document's page sequence is the concatenation,
\* in input order, of every input document's pages in their original
\* order, whatever the inputs are.
C10_AsStated ==
    /\ MergeInProgressIsConcatenation
    /\ mpc = "returned" =>
         /\ files[OutputPath].kind = "pdf"
         /\ files[OutputPath].pages = Concatenation(pdfPaths)

\* C10: the merged document's page sequence is the concatenation, in input
\* order, of every input document's pages in their original order, when
\* the inputs hold a page at all; a merge of inputs without any page is
\* written as one blank page.  While it is built the document is the merge
\* of the inputs taken so far, so that merging [A, B, C] is merging [A, B]
\* and then appending C.
C10_MergeIsConcatenation ==
    /\ MergeInProgressIsConcatenation
    /\ mpc = "returned" =>
         /\ files[OutputPath].kind = "pdf"
         /\ Concatenation(pdfPaths) # <<>> =>
              files[OutputPath].pages = Concatenation(pdfPaths)
         /\ Concatenation(pdfPaths) = <<>> =>
              files[OutputPath].pages = <<BlankPage>>

\* C10, a merge of three different documents, the first of two pages.
C10_Witness ==
    /\ mpc = "returned"
    /\ pdfPaths = <<"a.pdf", "b.pdf", "c.pdf">>
    /\ files[OutputPath].pages =
          << <<"a.pdf", 1>>, <<"a.pdf", 2>>, <<"b.pdf", 1>>, <<"c.pdf", 1>> >>

\* C11: a merge of zero documents ends with an empty-input error and
\* writes no output document.
C11_EmptyMergeFails ==
    (pdfPaths = <<>> /\ mpc \in {"loop", "returned", "thrown"}) =>
        /\ mpc # "returned"
        /\ mpc = "thrown" => mError.kind = "EmptyInput"
        /\ files[OutputPath].kind = "absent"

\* C11, the failing case: mergePDFs([], outputPath) has returned and the
\* output file is a document of one blank page.
C11_Witness ==
    /\ pdfPaths = <<>> /\ mpc = "returned" /\ mError = NoError
    /\ files[OutputPath] = PdfFile(<<BlankPage>>)

\* The error of a failed merge names the index of the input at which the
\* merge failed.
ErrorNamesIndex ==
    "index" \in DOMAIN mError /\ mError.index = mi + 1

\* A failed merge has written no output.
FailedMergeWritesNothing ==
    mpc = "thrown" => files[OutputPath].kind = "absent"

\* No step of a merge changes an input file.
InputsUnchanged == \A p \in InputPaths : files'[p] = files[p]

\* A merge fails exactly at the first input that cannot be read or parsed.
FailsAtFirstUnreadable ==
    mpc = "thrown" =>
        /\ mi < Len(pdfPaths)
        /\ files[pdfPaths[mi + 1]].kind # "pdf"
        /\ \A k \in 1..mi : files[pdfPaths[k]].kind = "pdf"

\* A merge of inputs that can all be read and parsed does not fail.
ReadableInputsMerge ==
    (\A k \in 1..Len(pdfPaths) : files[pdfPaths[k]].kind = "pdf") =>
        mpc # "thrown"

\* What holds of a failed merge apart from the naming of the index.
MergeFailureIsClean ==
    /\ [](FailedMergeWritesNothing /\ FailsAtFirstUnreadable
            /\ ReadableInputsMerge)
    /\ [][InputsUnchanged]_vars

\* C12: a merge with an input that cannot be read or parsed fails with an
\* error naming the index of that input, writes no output and changes no
\* input, so that a merge retried without that input succeeds with the
\* pages of the remaining inputs in order.
C12_UnreadableInputFails ==
    /\ [](mpc = "thrown" => ErrorNamesIndex)
    /\ MergeFailureIsClean

\* C12, the failing case: the second of three inputs is no PDF document and
\* the error holds the message of the parser only.
C12_Witness ==
    /\ mpc = "thrown" /\ mi = 1
    /\ pdfPaths = <<"a.pdf", "b.pdf", "c.pdf">>
    /\ files["b.pdf"] = CorruptFile
    /\ mError = [kind |-> "FailedToMergePDFs",
                 cause |-> "Failed to parse PDF document", path |-> ""]

\* A merge retried without the second of three inputs has returned the
\* pages of the first and the third.
RetriedMergeSucceeded ==
    /\ mpc = "returned"
    /\ pdfPaths = <<"a.pdf", "c.pdf">> /\ excluded = <<"b.pdf">>
    /\ files["b.pdf"] = CorruptFile
    /\ files[OutputPath].pages = << <<"a.pdf", 1>>, <<"c.pdf", 1>> >>

---------------------------------------------------------------------------
(* The HTTP boundary and the validator.  A JavaScript number is NaN or a   *)
(* multiple of half a hundredth; a field of the request body is a raw      *)
(* JSON value, a string being known by its text.                           *)

\* The number 1, in the unit of the numbers of a request.
One == 100 * Cent

NaN == [nan |-> TRUE, v |-> 0]
Num(v) == [nan |-> FALSE, v |-> v]

Undefined == [t |-> "undefined", text |-> "", n |-> 0]
RawNumber(v) == [t |-> "number", text |-> "", n |-> v]
RawString(text) == [t |-> "string", text |-> text, n |-> 0]

\* parseFloat of a string: the longest numeric prefix.
ParseFloatText(text) ==
    CASE text \in {"3", "3.0", "3abc"} -> Num(3 * One)
      [] text = "2.5" -> Num((5 * One) \div 2)
      [] text = "1" -> Num(One)
      [] text = "2" -> Num(2 * One)
      [] text = "20" -> Num(20 * One)
      [] text = "100" -> Num(100 * One)
      [] text = "200" -> Num(200 * One)
      [] OTHER -> NaN

\* parseInt of a string: the longest prefix of digits.
ParseIntText(text) ==
    CASE text \in {"3", "3.0", "3abc"} -> Num(3 * One)
      [] text = "2.5" -> Num(2 * One)
      [] text = "1" -> Num(One)
      [] text = "2" -> Num(2 * One)
      [] text = "20" -> Num(20 * One)
      [] text = "100" -> Num(100 * One)
      [] text = "200" -> Num(200 * One)
      [] OTHER -> NaN

\* Number(string), the conversion of the arithmetic and relational
\* operators: the whole string must be a numeric literal; "" is 0.
ToNumberText(text) ==
    CASE text \in {"3", "3.0"} -> Num(3 * One)
      [] text = "2.5" -> Num((5 * One) \div 2)
      [] text = "" -> Num(0)
      [] OTHER -> NaN

\* parseFloat(x)
ParseFloat(x) ==
    CASE x.t = "number" -> Num(x.n)
      [] x.t = "string" -> ParseFloatText(x.text)
      [] OTHER -> NaN

\* parseInt(x), for a number not negative: the integral part.
ParseInt(x) ==
    CASE x.t = "number" -> Num((x.n \div One) * One)
      [] x.t = "string" -> ParseIntText(x.text)
      [] OTHER -> NaN

\* The implicit conversion to a number.
ToNumber(x) ==
    CASE x.t = "number" -> Num(x.n)
      [] x.t = "string" -> ToNumberText(x.text)
      [] OTHER -> NaN

\* x === undefined || x === null || x === ''
IsMissing(x) ==
    \/ x.t = "undefined"
    \/ x.t = "string" /\ x.text = ""

\* !x
IsFalsy(x) ==
    \/ x.t = "undefined"
    \/ x.t = "string" /\ x.text = ""
    \/ x.t = "number" /\ x.n = 0

\* Comparisons of JavaScript numbers: false when an operand is NaN.
JsLess(a, b) == ~a.nan /\ ~b.nan /\ a.v < b.v
JsLessEq(a, b) == ~a.nan /\ ~b.nan /\ a.v <= b.v
JsStrictEq(a, b) == ~a.nan /\ ~b.nan /\ a.v = b.v

\* a * b of two JavaScript numbers, one of them integral.
JsTimes(a, b) ==
    IF a.nan \/ b.nan THEN NaN ELSE Num((a.v * b.v) \div One)

\* The date strings of the requests, and new Date(text).getTime() in days:
\* 2025-01-01 is day 0.  The parser also takes the month-first form
\* "01/05/2025" (the fifth of January), and it takes "2026-02-30" for the
\* second of March 2026, day 425.
DayOfText(text) ==
    CASE text = "2024-12-31" -> Num(-1)
      [] text = "2025-01-01" -> Num(0)
      [] text = "2025-01-05" -> Num(4)
      [] text = "2025-01-13" -> Num(12)
      [] text = "01/05/2025" -> Num(4)
      [] text = "2026-02-30" -> Num(425)
      [] OTHER -> NaN

\* /^\d{4}-\d{2}-\d{2}$/.test(text)
IsDateFormat(text) ==
    text \in {"2024-12-31", "2025-01-01", "2025-01-05", "2025-01-13",
              "2026-02-30"}

\* new Date(text).toISOString().split('T')[0] === text
IsCalendarDate(text) ==
    text \in {"2024-12-31", "2025-01-01", "2025-01-05", "2025-01-13"}

\* stationName.trim().length > 0
IsBlankText(text) == text \in {"", "   "}

\* validateStationName: true when the name is a non-blank string.
ValidateStationName(stationName) ==
    /\ ~IsFalsy(stationName)
    /\ stationName.t = "string"
    /\ ~IsBlankText(stationName.text)

\* validateFuelRate: the error message, or "null".
ValidateFuelRate(fuelRate) ==
    IF IsMissing(fuelRate) THEN "Fuel Rate is required"
    ELSE IF ParseFloat(fuelRate).nan THEN "Fuel Rate must be a valid number"
    ELSE IF JsLessEq(ParseFloat(fuelRate), Num(0))
    THEN "Fuel Rate must be greater than 0"
    ELSE "null"

\* validateTemplate
ValidateTemplate(template) ==
    IF IsFalsy(template) THEN "Template selection is required"
    ELSE IF \/ ParseInt(template).nan
            \/ ParseInt(template).v \notin {One, 2 * One, 3 * One}
    THEN "Template must be 1, 2, or 3"
    ELSE "null"

\* validateTotalAmount
ValidateTotalAmount(total) ==
    IF IsMissing(total) THEN "Total Amount is required"
    ELSE IF ParseFloat(total).nan THEN "Total Amount must be a valid number"
    ELSE IF JsLessEq(ParseFloat(total), Num(0))
    THEN "Total Amount must be greater than 0"
    ELSE "null"

\* validateNumberOfBills
ValidateNumberOfBills(bills) ==
    IF IsMissing(bills) THEN "Number of Bills is required"
    ELSE IF ParseInt(bills).nan THEN "Number of Bills must be a valid integer"
    ELSE IF JsLess(ParseInt(bills), Num(One))
    THEN "Number of Bills must be at least 1"
    ELSE IF ~JsStrictEq(ParseInt(bills), ParseFloat(bills))
    THEN "Number of Bills must be a whole number"
    ELSE "null"

\* validateMaxAmountPerBill
ValidateMaxAmountPerBill(maxPer) ==
    IF IsMissing(maxPer) THEN "Max Amount Per Bill is required"
    ELSE IF ParseFloat(maxPer).nan
    THEN "Max Amount Per Bill must be a valid number"
    ELSE IF JsLessEq(ParseFloat(maxPer), Num(0))
    THEN "Max Amount Per Bill must be greater than 0"
    ELSE "null"

\* validateDistributionPossible
ValidateDistributionPossible(total, bills, maxPer) ==
    IF JsLess(JsTimes(ParseFloat(maxPer), ParseInt(bills)), ParseFloat(total))
    THEN "Max Amount Per Bill x Number of Bills is less than Total Amount"
    ELSE "null"

\* validateDates of src/utils/validator.js
ValidateDatesParsed(start, end) ==
    IF IsFalsy(start) THEN "Start Date is required"
    ELSE IF IsFalsy(end) THEN "End Date is required"
    ELSE IF DayOfText(start.text).nan THEN "Start Date is invalid"
    ELSE IF DayOfText(end.text).nan THEN "End Date is invalid"
    ELSE IF JsLess(DayOfText(end.text), DayOfText(start.text))
    THEN "End Date cannot be before Start Date"
    ELSE "null"

\* validateDates of the revision in src/utils/pdfMerger.js, with the
\* format test and the calendar test.
ValidateDatesStrict(start, end) ==
    IF IsFalsy(start) THEN "Start Date is required"
    ELSE IF IsFalsy(end) THEN "End Date is required"
    ELSE IF ~IsDateFormat(start.text)
    THEN "Start Date must be in YYYY-MM-DD format"
    ELSE IF ~IsDateFormat(end.text)
    THEN "End Date must be in YYYY-MM-DD format"
    ELSE IF DayOfText(start.text).nan THEN "Start Date is invalid"
    ELSE IF DayOfText(end.text).nan THEN "End Date is invalid"
    ELSE IF ~IsCalendarDate(start.text)
    THEN "Start Date is not a valid calendar date"
    ELSE IF ~IsCalendarDate(end.text)
    THEN "End Date is not a valid calendar date"
    ELSE IF JsLess(DayOfText(end.text), DayOfText(start.text))
    THEN "End Date cannot be before Start Date"
    ELSE "null"

\* The two revisions of the validator in the repository: the module
\* src/utils/validator.js, and the one in src/utils/pdfMerger.js.
ValidatorRevs == {"validator.js", "pdfMerger.js"}

ValidateDates(rev, start, end) ==
    IF rev = "pdfMerger.js"
    THEN ValidateDatesStrict(start, end)
    ELSE ValidateDatesParsed(start, end)

\* The spacing of validateDateRangeCapacity (minDaysApart = 3) and of the
\* call generateUniqueDates(numberOfBills, startDate, endDate, 3).
DefaultMinDaysApart == 3

\* validateDateRangeCapacity(startDate, endDate, numberOfBills)
ValidateDateRangeCapacity(start, end, bills) ==
    LET totalDays == DayOfText(end.text).v - DayOfText(start.text).v
        minRequiredDays ==
            ((ParseInt(bills).v \div One) - 1) * DefaultMinDaysApart
    IN IF totalDays < minRequiredDays
       THEN "Date range is too small"
       ELSE "null"

\* Mutant: a message is recorded only while no other is.
PushFirstOnly(errors, e) ==
    IF e = "null" \/ Len(errors) > 0 THEN errors ELSE Append(errors, e)

\* errors.push(e) when the check returned a message
Push(errors, e) == IF e = "null" THEN errors ELSE Append(errors, e)

\* validateBillGenerationData(data): every check is made, in the order of
\* the code; the feasibility checks only when their fields passed.
ValidateBillGenerationData(rev, data) ==
    LET e1 == IF ValidateStationName(data.stationName) THEN <<>>
              ELSE <<"Fuel Station Name is required and cannot be empty">>
        e2 == Push(e1, ValidateFuelRate(data.fuelRate))
        e3 == Push(e2, ValidateTemplate(data.template))
        totalAmountError == ValidateTotalAmount(data.totalAmount)
        e4 == Push(e3, totalAmountError)
        numberOfBillsError == ValidateNumberOfBills(data.numberOfBills)
        e5 == Push(e4, numberOfBillsError)
        maxAmountError == ValidateMaxAmountPerBill(data.maxAmountPerBill)
        e6 == Push(e5, maxAmountError)
        e7 == IF /\ totalAmountError = "null"
                 /\ numberOfBillsError = "null"
                 /\ maxAmountError = "null"
              THEN Push(e6, ValidateDistributionPossible(data.totalAmount,
                              data.numberOfBills, data.maxAmountPerBill))
              ELSE e6
        dateError == ValidateDates(rev, data.startDate, data.endDate)
        e8 == Push(e7, dateError)
        e9 == IF /\ rev = "pdfMerger.js"
                 /\ dateError = "null"
                 /\ numberOfBillsError = "null"
              THEN Push(e8, ValidateDateRangeCapacity(data.startDate,
                              data.endDate, data.numberOfBills))
              ELSE e8
    IN [isValid |-> Len(e9) = 0, errors |-> e9]

\* The input checks of distributeAmount on the numbers that the fields of
\* a request convert to (a comparison with NaN is false).
DistributeInputErrorOfRequest(total, bills, maxPer) ==
    IF JsLessEq(total, Num(0)) THEN "TotalNotPositive"
    ELSE IF JsLess(bills, Num(One)) THEN "CountBelowOne"
    ELSE IF JsLessEq(maxPer, Num(0)) THEN "MaxNotPositive"
    ELSE IF JsLess(JsTimes(maxPer, bills), total)
    THEN "MaxTimesCountBelowTotal"
    ELSE "ok"

\* The input checks of generateUniqueDates(numberOfBills, startDate,
\* endDate, 3) on the fields of a request.
ScheduleInputErrorOfRequest(bills, start, end) ==
    LET startDay == DayOfText(start.text)
        endDay == DayOfText(end.text)
        minRequiredDays ==
            IF bills.nan THEN NaN
            ELSE Num((bills.v - One) * DefaultMinDaysApart)
    IN IF start.t # "string" \/ startDay.nan THEN "Invalid start date"
       ELSE IF end.t # "string" \/ endDay.nan THEN "Invalid end date"
       ELSE IF JsLess(endDay, startDay)
       THEN "End date cannot be before start date"
       ELSE IF JsLess(Num((endDay.v - startDay.v) * One), minRequiredDays)
       THEN "Date range is too small"
       ELSE "ok"

\* The bodies of the requests considered, field by field.
StationNames == {RawString(""), RawString("Shell"), RawNumber(One)}
FuelRates == {RawNumber(0), RawNumber(100 * One)}
Templates == {Undefined, RawString("3")}
TotalAmounts ==
    {Undefined, RawNumber(40 * One), RawNumber(200 * One), RawString("3abc")}
BillCounts ==
    {Undefined, RawNumber(One), RawNumber(3 * One), RawNumber(5 * One),
     RawNumber((5 * One) \div 2), RawString("3"), RawString("3abc"),
     RawString("3.0")}
MaxAmounts == {RawNumber(0), RawNumber(20 * One), RawNumber(100 * One)}
StartDates == {Undefined, RawString("2025-01-01"), RawString("01/05/2025")}
EndDates ==
    {RawString("2024-12-31"), RawString("2025-01-01"),
     RawString("2025-01-05"), RawString("2025-01-13"),
     RawString("01/05/2025"), RawString("2026-02-30")}

\* The bodies with their eight fields, and the body that is no object:
\* req.body when the request carried no JSON body and the body parser
\* left it undefined.
RequestBodies ==
    [stationName : StationNames, fuelRate : FuelRates,
     template : Templates, totalAmount : TotalAmounts,
     numberOfBills : BillCounts, maxAmountPerBill : MaxAmounts,
     startDate : StartDates, endDate : EndDates]
        \cup {Undefined}

\* const { stationName, ... } = data throws a TypeError when data is
\* undefined or null.
DestructureThrows(data) == data = Undefined

DestructureError == "Cannot destructure property 'stationName' of 'data'"

NoResponse == [status |-> 0, error |-> "", errors |-> <<>>]
NoValidation == [isValid |-> FALSE, errors |-> <<>>]

\* A request POST /api/generate-bills has arrived.
ServerRequest ==
    /\ formData \in RequestBodies
    /\ validatorRev \in ValidatorRevs
    /\ validation = NoValidation
    /\ spc = "received"
    /\ response = NoResponse

\* Mutant: the handler lets every validated request through.
RejectsNothing(v) == FALSE

\* if (!validation.isValid)
Rejects(v) == ~v.isValid

\* The handler validates the body and answers 400 with the violations, or
\* goes on to generateBills; a throw of the validator is caught by the
\* handler, which answers 500 with the message.
ServerValidate ==
    /\ spc = "received"
    /\ IF DestructureThrows(formData)
       THEN /\ response' = [status |-> 500, error |-> DestructureError,
                            errors |-> <<>>]
            /\ spc' = "responded"
            /\ UNCHANGED validation
       ELSE /\ validation' = ValidateBillGenerationData(validatorRev, formData)
            /\ IF Rejects(validation')
               THEN /\ response' = [status |-> 400,
                                    error |-> "Validation failed",
                                    errors |-> validation'.errors]
                    /\ spc' = "responded"
               ELSE /\ spc' = "generateBills"
                    /\ UNCHANGED response
    /\ UNCHANGED <<formData, validatorRev>>
    /\ UNCHANGED <<distVars, dateVars, mergeVars, billVars, concVars,
                 pageVars>>

\* generateBills calls distributeAmount on the fields of the body; a throw
\* is caught by the handler, which answers 500 with the message.
GenerateBillsDistribute ==
    /\ spc = "generateBills"
    /\ LET e == DistributeInputErrorOfRequest(
                    ToNumber(formData.totalAmount),
                    ToNumber(formData.numberOfBills),
                    ToNumber(formData.maxAmountPerBill))
       IN IF e # "ok"
          THEN /\ response' = [status |-> 500, error |-> e, errors |-> <<>>]
               /\ spc' = "responded"
          ELSE /\ spc' = "distributed"
               /\ UNCHANGED response
    /\ UNCHANGED <<formData, validatorRev, validation>>
    /\ UNCHANGED <<distVars, dateVars, mergeVars, billVars, concVars,
                 pageVars>>

\* generateBills calls generateUniqueDates(numberOfBills, startDate,
\* endDate, 3).
GenerateBillsDates ==
    /\ spc = "distributed"
    /\ LET e == ScheduleInputErrorOfRequest(
                    ToNumber(formData.numberOfBills),
                    formData.startDate, formData.endDate)
       IN IF e # "ok"
          THEN /\ response' = [status |-> 500, error |-> e, errors |-> <<>>]
               /\ spc' = "responded"
          ELSE /\ spc' = "scheduled"
               /\ UNCHANGED response
    /\ UNCHANGED <<formData, validatorRev, validation>>
    /\ UNCHANGED <<distVars, dateVars, mergeVars, billVars, concVars,
                 pageVars>>

\* The rest of generateBills (the allocation, the sampling, the browser
\* automation and the merge): it returns a result, or throws.
GenerateBillsRun ==
    /\ spc = "scheduled"
    /\ \E ok \in BOOLEAN :
         response' = IF ok
                     THEN [status |-> 200, error |-> "", errors |-> <<>>]
                     ELSE [status |-> 500, error |-> "generation failed",
                           errors |-> <<>>]
    /\ spc' = "responded"
    /\ UNCHANGED <<formData, validatorRev, validation>>
    /\ UNCHANGED <<distVars, dateVars, mergeVars, billVars, concVars,
                 pageVars>>

ServerNext ==
    \/ ServerValidate
    \/ GenerateBillsDistribute
    \/ GenerateBillsDates
    \/ GenerateBillsRun

ServerInit ==
    ServerRequest /\ DistIdle /\ DatesIdle /\ MergeIdle /\ BillsIdle
        /\ ConcIdle /\ PageIdle

SpecServer == ServerInit /\ [][ServerNext]_vars

---------------------------------------------------------------------------
(* Properties of the HTTP boundary                                         *)

\* The messages of the input checks of distributeAmount and of
\* generateUniqueDates.
PreconditionErrors ==
    {"TotalNotPositive", "CountBelowOne", "MaxNotPositive",
     "MaxTimesCountBelowTotal",
     "Invalid start date", "Invalid end date",
     "End date cannot be before start date", "Date range is too small"}

\* C4: for every request that validateBillGenerationData accepts, the
\* distributeAmount call and the generateUniqueDates call with 3-day
\* spacing that generateBills makes never fail their precondition checks.
C4_ValidatedRequestsAreFeasible ==
    validation.isValid => response.error \notin PreconditionErrors

\* C4, the failing case: 5 bills in 2025-01-01 .. 2025-01-05 pass
\* src/utils/validator.js and fail in generateUniqueDates.
C4_Witness ==
    /\ validatorRev = "validator.js"
    /\ validation.isValid
    /\ formData.numberOfBills = RawNumber(5 * One)
    /\ formData.startDate = RawString("2025-01-01")
    /\ formData.endDate = RawString("2025-01-05")
    /\ spc = "responded"
    /\ response.status = 500
    /\ response.error = "Date range is too small"

\* With the validator of src/utils/pdfMerger.js, which checks the capacity
\* of the date range, no accepted request fails a precondition check.
ValidatedRequestsAreFeasibleWithCapacityCheck ==
    validatorRev = "pdfMerger.js" => C4_ValidatedRequestsAreFeasible

\* The distribution check alone is never failed after a validation.
ValidatedRequestsAreDistributable ==
    validation.isValid =>
        response.error \notin {"TotalNotPositive", "CountBelowOne",
                               "MaxNotPositive", "MaxTimesCountBelowTotal"}

\* The validator has been called on the body of the request.
ValidatorRan == spc # "received"

\* The validator has returned a result for a body with its fields.
ValidatorReturned == ValidatorRan /\ ~DestructureThrows(formData)

\* A result {isValid, errors}: valid exactly when there is no message.
IsResult(v) == v.isValid = (Len(v.errors) = 0)

\* The messages of the field checks that the body fails, each check taken
\* by itself.
FieldCheckMessages(rev, data) ==
    { IF ValidateStationName(data.stationName) THEN "null"
      ELSE "Fuel Station Name is required and cannot be empty",
      ValidateFuelRate(data.fuelRate),
      ValidateTemplate(data.template),
      ValidateTotalAmount(data.totalAmount),
      ValidateNumberOfBills(data.numberOfBills),
      ValidateMaxAmountPerBill(data.maxAmountPerBill),
      ValidateDates(rev, data.startDate, data.endDate) } \ {"null"}

Occurrences(errors, m) ==
    Cardinality({k \in 1..Len(errors) : errors[k] = m})

DistinctMessages(errors) == {errors[k] : k \in 1..Len(errors)}

\* Every failing field check has its message in the list, once.
EveryFailingCheckReported ==
    \A m \in FieldCheckMessages(validatorRev, formData) :
        Occurrences(validation.errors, m) = 1

\* C13: validateBillGenerationData never throws; for every raw value of
\* the parameter, a missing parameter object and missing or wrongly typed
\* fields included, it returns a result {isValid, errors}, and it makes
\* every field check even when earlier checks have failed.
C13_ValidatorNeverThrows ==
    ValidatorRan =>
        /\ response.error # DestructureError
        /\ validation # NoValidation
        /\ IsResult(validation)
        /\ EveryFailingCheckReported

\* C13, the failing case: the parameter is no object, and the handler has
\* answered with the TypeError of the validator.
C13_Witness ==
    /\ formData = Undefined
    /\ spc = "responded"
    /\ validation = NoValidation
    /\ response = [status |-> 500, error |-> DestructureError,
                   errors |-> <<>>]

\* For every body with its fields, wrongly typed fields included, the
\* validator returns a result with the message of every failing check.
ValidatorReturnsForObjects ==
    ValidatorReturned =>
        /\ validation # NoValidation
        /\ IsResult(validation)
        /\ EveryFailingCheckReported

\* The example of a body failing three checks: no station name, a fuel
\* rate of 0, and an end date before the start date.
ThreeViolations ==
    /\ formData.stationName = RawString("")
    /\ formData.fuelRate = RawNumber(0)
    /\ formData.startDate = RawString("2025-01-01")
    /\ formData.endDate = RawString("2024-12-31")

\* C14: the violation list holds one message for each failing check among
\* station name, fuel rate, template, total amount, count, maximum per
\* bill and dates, whatever other checks fail, and isValid is true exactly
\* when the list is empty; the example of three violations gives at least
\* three distinct messages and isValid = false.
C14_OneMessagePerFailingCheck ==
    ValidatorReturned =>
        /\ EveryFailingCheckReported
        /\ validation.isValid <=> validation.errors = <<>>
        /\ ThreeViolations =>
             /\ Cardinality(DistinctMessages(validation.errors)) >= 3
             /\ ~validation.isValid

\* C14, the example: the three messages are in the answer.
C14_Witness ==
    /\ ValidatorReturned /\ ThreeViolations
    /\ response.status = 400
    /\ {"Fuel Station Name is required and cannot be empty",
        "Fuel Rate must be greater than 0",
        "End Date cannot be before Start Date"}
          \subseteq DistinctMessages(response.errors)

\* A count written in integral form: a whole number of at least 1, or a
\* string of digits only.
IsIntegralForm(x) ==
    \/ x.t = "number" /\ x.n % One = 0 /\ x.n >= One
    \/ x.t = "string" /\ x.text \in {"3"}

\* C15: the count check accepts only positive integers written in
\* integral form; a value with a fractional form such as "3.0", or with
\* characters after the number, is flagged.
C15_CountInIntegralForm ==
    ValidatorReturned =>
        (ValidateNumberOfBills(formData.numberOfBills) = "null"
            => IsIntegralForm(formData.numberOfBills))

\* C15, the failing case: a request whose count is the string "3.0" has
\* been accepted.
C15_Witness ==
    /\ ValidatorReturned
    /\ formData.numberOfBills = RawString("3.0")
    /\ validation = [isValid |-> TRUE, errors |-> <<>>]

\* A literal YYYY-MM-DD string of a day of the calendar.
IsLiteralCalendarDate(x) ==
    /\ x.t = "string"
    /\ x.text \in {"2024-12-31", "2025-01-01", "2025-01-05", "2025-01-13"}

DateMessages ==
    {"Start Date is required", "End Date is required",
     "Start Date must be in YYYY-MM-DD format",
     "End Date must be in YYYY-MM-DD format",
     "Start Date is invalid", "End Date is invalid",
     "Start Date is not a valid calendar date",
     "End Date is not a valid calendar date",
     "End Date cannot be before Start Date"}

\* C16: the validator reports a date violation for every start or end
\* value that is not a literal YYYY-MM-DD string of a real calendar date;
\* it accepts no such value by parsing it into some date.
C16_DatesAreLiteral ==
    ValidatorReturned =>
        (~(/\ IsLiteralCalendarDate(formData.startDate)
           /\ IsLiteralCalendarDate(formData.endDate))
            => DistinctMessages(validation.errors) \cap DateMessages # {})

\* C16, the failing case: src/utils/validator.js has accepted a request
\* whose end date is 2026-02-30.
C16_Witness ==
    /\ ValidatorReturned
    /\ validatorRev = "validator.js"
    /\ formData.endDate = RawString("2026-02-30")
    /\ validation = [isValid |-> TRUE, errors |-> <<>>]

\* The validator of src/utils/pdfMerger.js, with its format test and its
\* calendar test, reports every such value.
DatesAreLiteralInStrictValidator ==
    validatorRev = "pdfMerger.js" => C16_DatesAreLiteral

\* generateBills has been invoked for the request and has not returned.
InGenerateBills == spc \in {"generateBills", "distributed", "scheduled"}

\* A request whose validation failed is answered 400 with the whole list.
InvalidIsAnswered400 ==
    (ValidatorReturned /\ ~validation.isValid) =>
        /\ spc = "responded"
        /\ response = [status |-> 400, error |-> "Validation failed",
                       errors |-> validation.errors]
        /\ validation.errors # <<>>

\* generateBills begins only with the valid result of the validation of
\* the body of this request.
InvokedOnlyWhenValid ==
    InGenerateBills' =>
        /\ validation'.isValid
        /\ validation' = ValidateBillGenerationData(validatorRev, formData)
        /\ formData' = formData

\* An answer other than "Validation failed" that comes from generateBills
\* is given to a validated request only.
AnswersOfGenerateBills ==
    (spc = "responded" /\ response.status # 400
        /\ response.error # DestructureError) => validation.isValid

\* C20: the HTTP boundary rejects early: a request whose validation fails
\* is answered with status 400 and the full violation list and
\* generateBills is never invoked for it; generateBills is invoked only
\* after the validation of that same request returned valid.
C20_RejectsEarly ==
    /\ [](InvalidIsAnswered400 /\ AnswersOfGenerateBills)
    /\ [](~validation.isValid => ~InGenerateBills)
    /\ [][InvokedOnlyWhenValid]_vars

\* C20, a request with two violations answered 400 with both.
C20_Witness ==
    /\ ValidatorReturned
    /\ spc = "responded" /\ response.status = 400
    /\ response.errors = validation.errors
    /\ response.errors = <<"Fuel Rate must be greater than 0",
                           "Template selection is required">>

\* The validator's verdicts on the fields that the feasibility checks
\* depend on.
AmountFieldsValid ==
    /\ ValidateTotalAmount(formData.totalAmount) = "null"
    /\ ValidateNumberOfBills(formData.numberOfBills) = "null"
    /\ ValidateMaxAmountPerBill(formData.maxAmountPerBill) = "null"

ScheduleFieldsValid ==
    /\ ValidateDates(validatorRev, formData.startDate, formData.endDate)
          = "null"
    /\ ValidateNumberOfBills(formData.numberOfBills) = "null"

\* maxAmountPerBill x numberOfBills < totalAmount, on valid fields.
DistributionInfeasible ==
    /\ AmountFieldsValid
    /\ ParseFloat(formData.maxAmountPerBill).v
          * (ParseInt(formData.numberOfBills).v \div One)
        < ParseFloat(formData.totalAmount).v

\* The days from the start date to the end date are fewer than
\* (numberOfBills - 1) x 3, on valid fields.
ScheduleInfeasibleRequest ==
    /\ ScheduleFieldsValid
    /\ DayOfText(formData.endDate.text).v
          - DayOfText(formData.startDate.text).v
        < ((ParseInt(formData.numberOfBills).v \div One) - 1)
            * DefaultMinDaysApart

Reported(m) == \E k \in 1..Len(validation.errors) : validation.errors[k] = m

\* C24: the validator reports the distribution violation exactly when
\* total, count and maximum are each valid and maximum x count < total, and
\* the schedule violation exactly when the dates and the count are valid
\* and the range is shorter than (count - 1) x 3 days; neither is reported
\* when a field it depends on is invalid.
C24_FeasibilityReportedExactly ==
    ValidatorReturned =>
        /\ Reported("Max Amount Per Bill x Number of Bills is less than Total Amount")
             <=> DistributionInfeasible
        /\ Reported("Date range is too small")
             <=> ScheduleInfeasibleRequest

\* C24, the failing case: src/utils/validator.js, which server.js requires,
\* has accepted 3 bills in 2025-01-01 .. 2025-01-05 without any message,
\* though 3 bills need 6 days.
C24_Witness ==
    /\ validatorRev = "validator.js"
    /\ ValidatorReturned
    /\ formData.numberOfBills = RawString("3")
    /\ formData.startDate = RawString("2025-01-01")
    /\ formData.endDate = RawString("2025-01-05")
    /\ ScheduleInfeasibleRequest
    /\ validation = [isValid |-> TRUE, errors |-> <<>>]

\* The validator of src/utils/pdfMerger.js reports both violations exactly
\* when they are there.
FeasibilityReportedExactlyInStrictValidator ==
    validatorRev = "pdfMerger.js" => C24_FeasibilityReportedExactly

\* Both validators report the distribution violation exactly when it is
\* there.
DistributionReportedExactly ==
    ValidatorReturned =>
        ( Reported("Max Amount Per Bill x Number of Bills is less than Total Amount")
            <=> DistributionInfeasible )

\* A request with an invalid count and a range too short for any spacing
\* has been answered without a message about the schedule.
NoScheduleMessageOnInvalidCount ==
    /\ validatorRev = "pdfMerger.js"
    /\ ValidatorReturned
    /\ formData.numberOfBills = Undefined
    /\ formData.startDate = RawString("2025-01-01")
    /\ formData.endDate = RawString("2025-01-01")
    /\ ~Reported("Date range is too small")
    /\ Reported("Number of Bills is required")

---------------------------------------------------------------------------
(* The orchestrator generateBills.  The download directory is shared by    *)
(* all runs.  A file name is a record; the document that the site returns  *)
(* for the download of attempt a of unit u of run b is <<b, u, a>>, a PDF  *)
(* of one page.                                                            *)

\* const MAX_RETRIES = 3
MAX_RETRIES == 3

\* `fuel-bill-${String(billNumber).padStart(3, '0')}.pdf`
BillFileName(billNumber) == [kind |-> "bill", number |-> billNumber]

\* 'Fuel Bill [freeforonline_com].pdf', the name the browser saves under.
DefaultFileName == [kind |-> "default", number |-> 0]

\* `fuel-bills-merged-${timestamp}.pdf`; a run has a timestamp of its own.
MergedFileName(stamp) == [kind |-> "merged", number |-> stamp]

NullName == [kind |-> "none", number |-> 0]

DirNames ==
    {BillFileName(n) : n \in 1..MaxUnits} \cup {DefaultFileName}
        \cup {MergedFileName(b) : b \in 1..MaxBatches}

\* fs.existsSync(path)
ExistsSync(fs, name) == fs[name].kind # "absent"

\* The receipt that a download delivers.
Receipt(doc) == PdfFile(<< <<doc, 1>> >>)

\* The browser finishes a download: the document is saved under the
\* default name, or under a name of its own when that name is taken.
Landed(fs, doc) ==
    IF ExistsSync(fs, DefaultFileName) THEN fs
    ELSE [fs EXCEPT ![DefaultFileName] = Receipt(doc)]

\* The end of downloadBill: if the default file exists it is renamed to
\* the name of the bill (replacing a file of that name), else a warning.
Renamed(fs, fileName) ==
    IF ExistsSync(fs, DefaultFileName)
    THEN [fs EXCEPT ![fileName] = fs[DefaultFileName],
                    ![DefaultFileName] = AbsentFile]
    ELSE fs

\* file.includes(pattern) && file.endsWith('.pdf'), for the pattern
\* 'fuel-bill-' of generateBills.
MatchesPattern(name) == name.kind = "bill"

\* fs.readdirSync(directory).filter(...).sort(): the matching names from
\* bill number n on, in the order of their zero-padded numbers.
RECURSIVE MatchingFilesFrom(_, _)
MatchingFilesFrom(fs, n) ==
    IF n > MaxUnits THEN <<>>
    ELSE (IF /\ ExistsSync(fs, BillFileName(n))
             /\ MatchesPattern(BillFileName(n))
          THEN <<BillFileName(n)>> ELSE <<>>)
         \o MatchingFilesFrom(fs, n + 1)

\* The document that the loop of mergePDFs builds from the given paths.
RECURSIVE MergedPages(_, _, _)
MergedPages(fs, paths, doc) ==
    IF paths = <<>> THEN doc
    ELSE MergedPages(fs, Tail(paths), AddPages(doc, CopyPages(fs[Head(paths)])))

\* mergePDFsInDirectory(DOWNLOAD_DIR, 'fuel-bill-', mergedFileName): the
\* directory afterwards; nothing is written when no file matches.
MergePDFsInDirectory(fs, outputFileName) ==
    LET matching == MatchingFilesFrom(fs, 1)
    IN IF Len(matching) = 0 THEN fs
       ELSE [fs EXCEPT ![outputFileName] =
                PdfFile(Save(MergedPages(fs, matching, <<>>)))]

\* Mutant: a fourth attempt is made.
ShouldRetryOnceMore(att) == att < MAX_RETRIES + 1

\* attempt < MAX_RETRIES
ShouldRetry(att) == att < MAX_RETRIES

\* const waitTime = attempt * 2000
BackoffTime(att) == att * 2000

\* Mutant: the loop over the units ends one unit early.
MoreUnitsButTheLast(next, n) == next < n - 1

\* i < numberOfBills
MoreUnits(next, n) == next < n

\* Mutant: when the merge failed the result reports a failure and no bill.
GenerateBillsResultDropsBills(bills, mergedPdfPath) ==
    [success |-> mergedPdfPath # NullName,
     bills |-> IF mergedPdfPath = NullName THEN <<>> ELSE bills,
     mergedPdf |-> mergedPdfPath]

\* The object that generateBills returns: success, the bills pushed, and
\* the name of the merged file or null.
GenerateBillsResult(bills, mergedPdfPath) ==
    [success |-> TRUE, bills |-> bills, mergedPdf |-> mergedPdfPath]

\* Mutant: the finally block does not close the browser.
BrowserAfterFinallyLeftOpen(b) == b

\* finally { if (browser) { await browser.close() } }
BrowserAfterFinally(b) == IF b = "null" THEN b ELSE "closed"

EmptyDirectory == [name \in DirNames |-> AbsentFile]

\* The server has started; the download directory is empty.
BillsStart ==
    /\ batch = 0 /\ params = [numberOfBills |-> 0] /\ bpc = "idle"
    /\ bi = 0 /\ attempt = 0 /\ billInfo = NullBill
    /\ generatedBills = <<>> /\ browser = "null" /\ openPages = 0
    /\ waitTime = 0 /\ result = NoResult /\ bError = "none"
    /\ pending = {}
    /\ attemptsOf = [u \in 1..MaxUnits |-> 0]
    /\ failuresOf = [u \in 1..MaxUnits |-> 0]
    /\ waitsOf = [u \in 1..MaxUnits |-> <<>>]
    /\ mergeInvoked = FALSE
    /\ files = EmptyDirectory
    /\ pdfPaths = <<>> /\ mergedPdf = <<>> /\ mi = 0
    /\ mpc = "idle" /\ mError = NoError /\ excluded = <<>>

\* generateBills(params) is called, no run being in progress.
GenerateBillsCall ==
    /\ bpc \in {"idle", "returned", "thrown"}
    /\ batch < MaxBatches
    /\ batch' = batch + 1
    /\ \E n \in 1..MaxUnits : params' = [numberOfBills |-> n]
    /\ bpc' = "start"
    /\ bi' = 0 /\ attempt' = 0 /\ billInfo' = NullBill
    /\ generatedBills' = <<>> /\ browser' = "null"
    /\ waitTime' = 0 /\ result' = NoResult /\ bError' = "none"
    /\ attemptsOf' = [u \in 1..MaxUnits |-> 0]
    /\ failuresOf' = [u \in 1..MaxUnits |-> 0]
    /\ waitsOf' = [u \in 1..MaxUnits |-> <<>>]
    /\ mergeInvoked' = FALSE
    /\ UNCHANGED <<openPages, pending, files>>
    /\ UNCHANGED <<distVars, dateVars, mergeLocals, serverVars, concVars,
                 pageVars>>

\* distributeAmount, generateUniqueDates and puppeteer.launch: the browser
\* is open, or one of the three has thrown and no browser was launched.
GenerateBillsLaunch ==
    /\ bpc = "start"
    /\ \E ok \in BOOLEAN :
         IF ok
         THEN /\ browser' = "open"
              /\ bpc' = "unit"
              /\ UNCHANGED bError
         ELSE /\ bpc' = "thrown"
              /\ bError' = "generation not started"
              /\ browser' = BrowserAfterFinally(browser)
    /\ UNCHANGED <<batch, params, bi, attempt, billInfo, generatedBills,
                   openPages, waitTime, result, pending,
                   attemptsOf, failuresOf, waitsOf, mergeInvoked, files>>
    /\ UNCHANGED <<distVars, dateVars, mergeLocals, serverVars, concVars,
                 pageVars>>

\* The body of the loop over the units up to the retry loop.
UnitBegin ==
    /\ bpc = "unit"
    /\ billInfo' = NullBill
    /\ attempt' = 1
    /\ bpc' = "attempt"
    /\ UNCHANGED <<batch, params, bi, generatedBills, browser, openPages,
                   waitTime, result, bError, pending,
                   attemptsOf, failuresOf, waitsOf, mergeInvoked, files>>
    /\ UNCHANGED <<distVars, dateVars, mergeLocals, serverVars, concVars,
                 pageVars>>

\* The catch block of the retry loop and what follows a last failure: the
\* wait before the next attempt, or the throw and the closing of the
\* browser in the finally block.
AttemptFailed ==
    /\ failuresOf' = [failuresOf EXCEPT ![bi + 1] = @ + 1]
    /\ IF ShouldRetry(attempt)
       THEN /\ waitTime' = BackoffTime(attempt)
            /\ waitsOf' = [waitsOf EXCEPT ![bi + 1] =
                              Append(@, BackoffTime(attempt))]
            /\ bpc' = "backoff"
            /\ UNCHANGED <<browser, bError>>
       ELSE /\ bpc' = "thrown"
            /\ bError' = "Failed to generate bill"
            /\ browser' = BrowserAfterFinally(browser)
            /\ UNCHANGED <<waitTime, waitsOf>>

\* generateSingleBill begins: browser.newPage().
AttemptOpenPage ==
    /\ bpc = "attempt"
    /\ attemptsOf' = [attemptsOf EXCEPT ![bi + 1] = @ + 1]
    /\ openPages' = openPages + 1
    /\ bpc' = "page"
    /\ UNCHANGED <<batch, params, bi, attempt, billInfo, generatedBills,
                   browser, waitTime, result, bError, pending,
                   failuresOf, waitsOf, mergeInvoked, files>>
    /\ UNCHANGED <<distVars, dateVars, mergeLocals, serverVars, concVars,
                 pageVars>>

\* generateSingleBill throws on the page: the page is closed.
AttemptFails ==
    /\ bpc = "page"
    /\ openPages' = openPages - 1
    /\ AttemptFailed
    /\ UNCHANGED <<batch, params, bi, attempt, billInfo, generatedBills,
                   result, pending, attemptsOf, mergeInvoked, files>>
    /\ UNCHANGED <<distVars, dateVars, mergeLocals, serverVars, concVars,
                 pageVars>>

\* generateSingleBill returns: the download was clicked and, after the
\* fixed wait, is finished, unfinished or lost; downloadBill renames the
\* default file if there is one; the page is closed; the bill is pushed.
AttemptSucceeds ==
    /\ bpc = "page"
    /\ LET doc == <<batch, bi + 1, attempt>>
           fileName == BillFileName(bi + 1)
       IN \E landing \in {"in time", "late", "never"} :
            /\ landing = "late" => Cardinality(pending) < MaxPending
            /\ files' = Renamed(IF landing = "in time"
                                THEN Landed(files, doc) ELSE files,
                                fileName)
            /\ pending' = IF landing = "late"
                          THEN pending \cup {doc} ELSE pending
            /\ billInfo' = [billNumber |-> bi + 1, fileName |-> fileName]
            /\ generatedBills' = Append(generatedBills, billInfo')
    /\ openPages' = openPages - 1
    /\ bi' = bi + 1
    /\ bpc' = IF MoreUnits(bi + 1, params.numberOfBills)
              THEN "unit" ELSE "merge"
    /\ UNCHANGED <<batch, params, attempt, browser, waitTime, result, bError,
                   attemptsOf, failuresOf, waitsOf, mergeInvoked>>
    /\ UNCHANGED <<distVars, dateVars, mergeLocals, serverVars, concVars,
                 pageVars>>

\* The wait is over: the next attempt of the same unit.
BackoffElapsed ==
    /\ bpc = "backoff"
    /\ attempt' = attempt + 1
    /\ waitTime' = 0
    /\ bpc' = "attempt"
    /\ UNCHANGED <<batch, params, bi, billInfo, generatedBills, browser,
                   openPages, result, bError, pending,
                   attemptsOf, failuresOf, waitsOf, mergeInvoked, files>>
    /\ UNCHANGED <<distVars, dateVars, mergeLocals, serverVars, concVars,
                 pageVars>>

\* After the loop: the merge of the directory, the result, and the closing
\* of the browser.  mergePDFsInDirectory throws when no file matches, and
\* it can throw when a file cannot be read or the output cannot be written;
\* the catch block only logs, and mergedPdfPath stays null.
GenerateBillsMerge ==
    /\ bpc = "merge"
    /\ mergeInvoked' = TRUE
    /\ \E mergeThrows \in BOOLEAN :
         IF mergeThrows \/ Len(MatchingFilesFrom(files, 1)) = 0
         THEN /\ files' = files
              /\ result' = GenerateBillsResult(generatedBills, NullName)
         ELSE /\ files' = MergePDFsInDirectory(files, MergedFileName(batch))
              /\ result' = GenerateBillsResult(generatedBills,
                                               MergedFileName(batch))
    /\ browser' = BrowserAfterFinally(browser)
    /\ bpc' = "returned"
    /\ UNCHANGED <<batch, params, bi, attempt, billInfo, generatedBills,
                   openPages, waitTime, bError, pending,
                   attemptsOf, failuresOf, waitsOf>>
    /\ UNCHANGED <<distVars, dateVars, mergeLocals, serverVars, concVars,
                 pageVars>>

\* The browser finishes a download that was unfinished when the wait of
\* downloadBill was over.
DownloadLands ==
    /\ \E doc \in pending :
         /\ pending' = pending \ {doc}
         /\ files' = Landed(files, doc)
    /\ UNCHANGED <<batch, params, bpc, bi, attempt, billInfo, generatedBills,
                   browser, openPages, waitTime, result, bError,
                   attemptsOf, failuresOf, waitsOf, mergeInvoked>>
    /\ UNCHANGED <<distVars, dateVars, mergeLocals, serverVars, concVars,
                 pageVars>>

Next ==
    \/ GenerateBillsCall
    \/ GenerateBillsLaunch
    \/ UnitBegin
    \/ AttemptOpenPage
    \/ AttemptFails
    \/ AttemptSucceeds
    \/ BackoffElapsed
    \/ GenerateBillsMerge
    \/ DownloadLands

Init ==
    BillsStart /\ DistIdle /\ DatesIdle /\ ServerIdle /\ ConcIdle /\ PageIdle

Spec == Init /\ [][Next]_vars

---------------------------------------------------------------------------
(* Requests served at the same time.  The handler of POST                  *)
(* /api/generate-bills is asynchronous: while one run of generateBills     *)
(* waits, another proceeds.  Every run launches a browser of its own that  *)
(* saves into the one download directory.  The document of unit u of the   *)
(* run of request r is <<r, u, 1>>; attempts that fail write no file and   *)
(* are left out.                                                           *)

IdleRun == [pc |-> "idle", numberOfBills |-> 0, bi |-> 0, renamed |-> <<>>,
            mergedPdf |-> NullName]

\* The server has started; the download directory is empty.
ConcStart ==
    /\ run = [r \in Requests |-> IdleRun]
    /\ downloading = {}
    /\ files = EmptyDirectory
    /\ pdfPaths = <<>> /\ mergedPdf = <<>> /\ mi = 0
    /\ mpc = "idle" /\ mError = NoError /\ excluded = <<>>

\* The document under the default name, or no document.
NoDocument == <<0, 0, 0>>

DefaultDocument(fs) ==
    IF ExistsSync(fs, DefaultFileName)
    THEN fs[DefaultFileName].pages[1][1] ELSE NoDocument

\* A request arrives and its run of generateBills begins.
ConcCall(r) ==
    /\ run[r].pc = "idle"
    /\ \E n \in 1..MaxUnits :
         run' = [run EXCEPT ![r] = [IdleRun EXCEPT !.pc = "unit",
                                                   !.numberOfBills = n]]
    /\ UNCHANGED <<downloading, files>>
    /\ UNCHANGED <<distVars, dateVars, mergeLocals, serverVars, billVars,
                   pageVars>>

\* downloadBill up to the click on the download button: the browser of the
\* run begins the download, and the run waits.
ConcClick(r) ==
    /\ run[r].pc = "unit"
    /\ downloading' = downloading \cup {<<r, run[r].bi + 1, 1>>}
    /\ run' = [run EXCEPT ![r].pc = "wait"]
    /\ UNCHANGED files
    /\ UNCHANGED <<distVars, dateVars, mergeLocals, serverVars, billVars,
                   pageVars>>

\* A browser finishes a download.
ConcDownloadLands ==
    /\ \E doc \in downloading :
         /\ downloading' = downloading \ {doc}
         /\ files' = Landed(files, doc)
    /\ UNCHANGED run
    /\ UNCHANGED <<distVars, dateVars, mergeLocals, serverVars, billVars,
                   pageVars>>

\* The rest of downloadBill after the wait: the default file, if there is
\* one, is renamed to the name of the bill; the bill is pushed and the
\* loop goes on to the next unit or ends.
ConcRename(r) ==
    /\ run[r].pc = "wait"
    /\ files' = Renamed(files, BillFileName(run[r].bi + 1))
    /\ run' = [run EXCEPT
                 ![r].renamed = Append(@, DefaultDocument(files)),
                 ![r].bi = @ + 1,
                 ![r].pc = IF MoreUnits(run[r].bi + 1, run[r].numberOfBills)
                           THEN "unit" ELSE "merge"]
    /\ UNCHANGED downloading
    /\ UNCHANGED <<distVars, dateVars, mergeLocals, serverVars, billVars,
                   pageVars>>

\* After the loop: the merge of the directory, and the result.
ConcMerge(r) ==
    /\ run[r].pc = "merge"
    /\ files' = MergePDFsInDirectory(files, MergedFileName(r))
    /\ run' = [run EXCEPT
                 ![r].mergedPdf = IF Len(MatchingFilesFrom(files, 1)) = 0
                                  THEN NullName ELSE MergedFileName(r),
                 ![r].pc = "returned"]
    /\ UNCHANGED downloading
    /\ UNCHANGED <<distVars, dateVars, mergeLocals, serverVars, billVars,
                   pageVars>>

ConcNext ==
    \/ \E r \in Requests : ConcCall(r)
    \/ \E r \in Requests : ConcClick(r)
    \/ ConcDownloadLands
    \/ \E r \in Requests : ConcRename(r)
    \/ \E r \in Requests : ConcMerge(r)

ConcInit ==
    ConcStart /\ DistIdle /\ DatesIdle /\ ServerIdle /\ BillsIdle /\ PageIdle

SpecConcurrent == ConcInit /\ [][ConcNext]_vars

---------------------------------------------------------------------------
(* Properties of generateBills                                             *)

\* The run in progress or just ended.
NumberOfBills == params.numberOfBills
Units == 1..NumberOfBills

\* The merged document of the current run, once the run has returned one.
MergedDocumentPages == files[result.mergedPdf].pages

\* C3: after any sequence of runs on the shared download directory, the
\* merged document of a run is the concatenation of exactly that run's N
\* receipts, bill 1 to bill N, each once, and holds no page of a document
\* of another run.
C3_MergedDocumentIsThisBatch ==
    (bpc = "returned" /\ result.mergedPdf # NullName) =>
        /\ Len(MergedDocumentPages) = NumberOfBills
        /\ \A u \in Units :
             /\ MergedDocumentPages[u][1][1] = batch
             /\ MergedDocumentPages[u][1][2] = u

\* C3, the failing case: a run of two bills, then a run of one bill, every
\* download finished in time; the second merged document ends with bill 2
\* of the first run.
C3_Witness ==
    /\ bpc = "returned" /\ batch = 2 /\ NumberOfBills = 1
    /\ pending = {}
    /\ result.mergedPdf = MergedFileName(2)
    /\ MergedDocumentPages = << <<<<2, 1, 1>>, 1>>, <<<<1, 2, 1>>, 1>> >>

UnitSucceeded(u) ==
    u <= Len(generatedBills) /\ generatedBills[u].billNumber = u

UnitExhausted(u) == failuresOf[u] = MAX_RETRIES

\* C5: within one run the automation of unit u + 1 never starts before
\* unit u has succeeded or exhausted its retries, at most one page is open
\* at any time, the merge is invoked only after all N units have
\* succeeded, and no merge is made for a run in which a unit exhausts its
\* retries.
C5_SequentialUnitsThenMerge ==
    /\ openPages \in {0, 1}
    /\ \A u \in 2..MaxUnits :
         attemptsOf[u] > 0 => (UnitSucceeded(u - 1) \/ UnitExhausted(u - 1))
    /\ bpc = "page" =>
         \A u \in 1..bi : UnitSucceeded(u)
    /\ mergeInvoked =>
         /\ Len(generatedBills) = NumberOfBills
         /\ \A u \in Units : UnitSucceeded(u)
    /\ (\E u \in 1..MaxUnits : UnitExhausted(u)) =>
         /\ ~mergeInvoked
         /\ bpc = "thrown"
         /\ result = NoResult
         /\ ~ExistsSync(files, MergedFileName(batch))

\* C5, a run of two bills merged after the first bill needed three
\* attempts.
C5_Witness ==
    /\ mergeInvoked /\ bpc = "returned"
    /\ NumberOfBills = 2
    /\ attemptsOf[1] = 3 /\ failuresOf[1] = 2 /\ attemptsOf[2] = 1
    /\ Len(generatedBills) = 2

\* The state of a unit of the current run.
UnitState(u) ==
    IF u <= Len(generatedBills) THEN "Succeeded"
    ELSE IF u = bi + 1 /\ bpc = "thrown" /\ bError = "Failed to generate bill"
    THEN "Exhausted"
    ELSE IF u = bi + 1 /\ bpc \in {"attempt", "page", "backoff"}
    THEN "Attempting"
    ELSE "Pending"

\* The waits after the first failures of a unit: 2 s, then 4 s.
ExpectedWaits(failures) ==
    [k \in 1..Min(failures, MAX_RETRIES - 1) |-> k * 2000]

UnitRetryInvariant ==
    /\ \A u \in 1..MaxUnits :
         /\ attemptsOf[u] <= 3
         /\ failuresOf[u] <= attemptsOf[u]
         /\ UnitState(u) = "Pending" => attemptsOf[u] = 0
         /\ UnitState(u) = "Succeeded" => attemptsOf[u] = failuresOf[u] + 1
         /\ UnitState(u) = "Exhausted" <=> failuresOf[u] = 3
         /\ waitsOf[u] = ExpectedWaits(failuresOf[u])
    /\ bpc = "backoff" =>
         /\ attempt < 3
         /\ waitTime = attempt * 2000
         /\ failuresOf[bi + 1] = attempt
         /\ attemptsOf[bi + 1] = attempt
    /\ bpc # "backoff" => waitTime = 0

UnitTransitions ==
    \A u \in 1..MaxUnits :
        batch' = batch =>
            \/ UnitState(u)' = UnitState(u)
            \/ UnitState(u) = "Pending" /\ UnitState(u)' = "Attempting"
            \/ UnitState(u) = "Attempting"
                 /\ UnitState(u)' \in {"Succeeded", "Exhausted"}

\* C6: each unit goes Pending -> Attempting -> (Succeeded | Exhausted); it
\* is attempted at most 3 times and not again after a success; a wait of
\* attempt x 2 s (2 s, then 4 s) follows each of its first two failures
\* and nothing else; it is Exhausted exactly when 3 attempts have failed.
C6_UnitRetryStateMachine ==
    []UnitRetryInvariant /\ [][UnitTransitions]_vars

\* C6, a unit exhausted after three failures and the waits of 2 s and 4 s.
C6_Witness ==
    /\ bpc = "thrown" /\ UnitState(1) = "Exhausted"
    /\ attemptsOf[1] = 3 /\ failuresOf[1] = 3
    /\ waitsOf[1] = <<2000, 4000>>


\* A step leaves every bill document that exists as it is.
BillsKept ==
    \A n \in 1..MaxUnits :
        ExistsSync(files, BillFileName(n)) =>
            files'[BillFileName(n)] = files[BillFileName(n)]

\* C18: no receipt document is ever overwritten: over units, retries and
\* runs that share the download directory, a bill is stored under a name
\* that is not the name of an existing bill document.
C18_NoBillOverwritten == [][BillsKept]_vars

\* C18, the failing case: fuel-bill-001.pdf holds the receipt of the second
\* run, while the merged document of the first run shows that the file
\* held the receipt of the first run.
C18_Witness ==
    /\ batch = 2
    /\ files[BillFileName(1)] = Receipt(<<2, 1, 1>>)
    /\ ExistsSync(files, MergedFileName(1))
    /\ files[MergedFileName(1)].pages = << <<<<1, 1, 1>>, 1>> >>

\* The first run on an empty directory overwrites no bill document.
BillsKeptInFirstRun == [][batch' = 1 => BillsKept]_vars


\* The documents of the run of request r.
OwnDocument(r, doc) == doc # NoDocument => doc[1] = r

\* C19: requests served at the same time do not interfere: a run renames
\* only documents that its own browser downloaded, and its merged document
\* holds only pages of its own documents, whatever the interleaving.
C19_RequestsDoNotInterfere ==
    \A r \in Requests :
        /\ \A k \in 1..Len(run[r].renamed) :
             OwnDocument(r, run[r].renamed[k])
        /\ (run[r].pc = "returned" /\ run[r].mergedPdf # NullName) =>
             \A k \in 1..Len(files[run[r].mergedPdf].pages) :
                 OwnDocument(r, files[run[r].mergedPdf].pages[k][1])

\* C19, the failing case: two requests of one bill each; the second has
\* renamed the download of the first, and the merged document of the
\* first holds the receipt of the second.
C19_Witness ==
    /\ run[1].pc = "returned" /\ run[1].numberOfBills = 1
    /\ run[2].numberOfBills = 1
    /\ run[2].renamed = << <<1, 1, 1>> >>
    /\ run[1].mergedPdf = MergedFileName(1)
    /\ files[MergedFileName(1)].pages = << <<<<2, 1, 1>>, 1>> >>


\* The merge step of generateBills is taken.
MergeStep == bpc = "merge" /\ bpc' # "merge"

\* The run returns its bills without a merged document, and every bill
\* document is as it was.
ReturnsBillsUnmerged ==
    /\ bpc' = "returned"
    /\ bError' = "none"
    /\ result'.success
    /\ result'.bills = generatedBills
    /\ Len(result'.bills) = NumberOfBills
    /\ \A u \in Units : result'.bills[u].billNumber = u
    /\ result'.mergedPdf = NullName
    /\ \A n \in 1..MaxUnits :
          files'[BillFileName(n)] = files[BillFileName(n)]

\* C26: when the merge fails after all N units succeeded (no merged
\* document is written), generateBills still returns the N bills with
\* mergedPdf = null: the failure is not propagated, and no bill document is
\* removed or altered.
C26_MergeFailureTolerated ==
    [][ (MergeStep /\ ~ExistsSync(files', MergedFileName(batch)))
          => ReturnsBillsUnmerged ]_vars

\* C26 witness: a run of two bills whose receipts are both in the
\* directory has returned them without a merged document.
C26_Witness ==
    /\ bpc = "returned" /\ batch = 1 /\ NumberOfBills = 2
    /\ mergeInvoked
    /\ files[BillFileName(1)] = Receipt(<<1, 1, 1>>)
    /\ files[BillFileName(2)] = Receipt(<<1, 2, 1>>)
    /\ ~ExistsSync(files, MergedFileName(1))
    /\ result.success /\ Len(result.bills) = 2
    /\ result.mergedPdf = NullName

\* A merge that succeeds is reported by its file name.
MergedFileReported ==
    (bpc = "returned") =>
        (result.mergedPdf = MergedFileName(batch)
            <=> ExistsSync(files, MergedFileName(batch)))

\* The browser of the run is open.
BrowserOpen == browser = "open"

\* C28: a browser that generateBills launched is closed when the call has
\* returned or thrown, and the page of an attempt is closed before the
\* next attempt or the next unit starts (and before the merge).
C28_BrowserAndPagesClosed ==
    /\ bpc \in {"returned", "thrown"} => ~BrowserOpen
    /\ bpc \in {"unit", "attempt", "backoff", "merge", "returned", "thrown"}
          => openPages = 0
    /\ bpc = "page" => openPages = 1 /\ BrowserOpen

\* C28 witness: a run has thrown after the third failure of its second
\* bill; four pages were opened, none is open, and the browser is closed.
C28_Witness ==
    /\ bpc = "thrown" /\ bError = "Failed to generate bill"
    /\ NumberOfBills = 2 /\ Len(generatedBills) = 1
    /\ attemptsOf[1] = 1 /\ attemptsOf[2] = 3
    /\ openPages = 0
    /\ browser = "closed"

\* A call that failed before puppeteer.launch has no browser to close.
NoBrowserWhenNotLaunched ==
    bError = "generation not started" => browser = "null"

\* An attempt of a unit is counted as successful in this step.
AttemptCounted == Len(generatedBills') = Len(generatedBills) + 1

\* The document that the site returned for the attempt in progress.
DocumentOfAttempt == <<batch, bi + 1, attempt>>

\* C30: every bill reported as generated has its own source document:
\* when the attempt of a unit is counted as successful, the file
\* fuel-bill-NNN.pdf of that bill exists and holds the document downloaded
\* during that attempt.
C30_ReportedBillHasItsDocument ==
    [][ AttemptCounted =>
          /\ generatedBills'[Len(generatedBills')].fileName
                = BillFileName(bi + 1)
          /\ files'[BillFileName(bi + 1)] = Receipt(DocumentOfAttempt) ]_vars

\* C30, the failing case: the only bill of the first run is reported as
\* generated while its download never reached the directory: there is no
\* fuel-bill-001.pdf.
C30_Witness ==
    /\ batch = 1 /\ NumberOfBills = 1 /\ bpc = "merge"
    /\ Len(generatedBills) = 1
    /\ generatedBills[1] = [billNumber |-> 1, fileName |-> BillFileName(1)]
    /\ pending = {}
    /\ ~ExistsSync(files, BillFileName(1))
    /\ ~ExistsSync(files, DefaultFileName)

\* A bill whose download is finished when downloadBill looks for it, in a
\* directory without a default file left behind, has its own document.
ReportedBillHasItsDocumentWhenLanded ==
    [][ ( /\ AttemptCounted
          /\ ExistsSync(files', BillFileName(bi + 1))
          /\ ~ExistsSync(files, DefaultFileName)
          /\ pending' = pending
          /\ files' # files )
        => files'[BillFileName(bi + 1)] = Receipt(DocumentOfAttempt) ]_vars

---------------------------------------------------------------------------
(* The page of the front end.  The values of the inputs are strings; a     *)
(* call of handleSubmit is numbered by the submit event that started it.   *)

\* What the user can have typed into the form.
Forms ==
    [stationName : {"", "Shell"}, fuelRate : {"100"}, template : {"1"},
     totalAmount : {"20", "200"}, numberOfBills : {"", "1", "2"},
     maxAmountPerBill : {"20"}, startDate : {"2025-01-01"},
     endDate : {"2024-12-31", "2025-01-13"}]

\* A JavaScript number used as a condition: NaN and 0 are false.
Truthy(x) == ~x.nan /\ x.v # 0

\* !x || x <= 0, for the number that parseFloat or parseInt gave.
NotPositive(x) == ~Truthy(x) \/ JsLessEq(x, Num(0))

\* validateForm(): the messages of the checks that fail, in the order of
\* the code.
ValidateForm(f) ==
    LET fuelRate == ParseFloatText(f.fuelRate)
        total == ParseFloatText(f.totalAmount)
        bills == ParseIntText(f.numberOfBills)
        maxPer == ParseFloatText(f.maxAmountPerBill)
        e1 == IF IsBlankText(f.stationName)
              THEN <<"Fuel Station Name is required">> ELSE <<>>
        e2 == IF NotPositive(fuelRate)
              THEN Append(e1, "Fuel Rate must be greater than 0") ELSE e1
        e3 == IF f.template = ""
              THEN Append(e2, "Please select a template") ELSE e2
        e4 == IF NotPositive(total)
              THEN Append(e3, "Total Amount must be greater than 0") ELSE e3
        e5 == IF ~Truthy(bills) \/ JsLess(bills, Num(One))
              THEN Append(e4, "Number of Bills must be at least 1") ELSE e4
        e6 == IF NotPositive(maxPer)
              THEN Append(e5, "Max Amount Per Bill must be greater than 0")
              ELSE e5
        e7 == IF /\ Truthy(total) /\ Truthy(bills) /\ Truthy(maxPer)
                 /\ JsLess(JsTimes(maxPer, bills), total)
              THEN Append(e6,
                 "Max Amount Per Bill x Number of Bills must be at least Total Amount")
              ELSE e6
        e8 == IF f.startDate = ""
              THEN Append(e7, "Start Date is required") ELSE e7
        e9 == IF f.endDate = ""
              THEN Append(e8, "End Date is required") ELSE e8
    IN IF /\ f.startDate # "" /\ f.endDate # ""
          /\ JsLess(DayOfText(f.endDate), DayOfText(f.startDate))
       THEN Append(e9, "End Date cannot be before Start Date")
       ELSE e9

\* How a request can end: fetch resolves with an ok response, with an
\* error status, with a body that is no JSON, or it rejects.
Outcomes == {"ok", "http error", "invalid json", "network error"}

\* The message that the catch block displays.
ErrorMessageOf(outcome) ==
    CASE outcome = "http error" -> "Failed to generate bills"
      [] outcome = "invalid json" -> "Unexpected token in JSON"
      [] OTHER -> "Failed to fetch"

\* Mutant: the loading state only restyles the button.
LoadingStateOnlyStyled(btn) == [btn EXCEPT !.loading = TRUE]

\* generateBtn.disabled = true; generateBtn.classList.add('loading')
LoadingState(btn) == [btn EXCEPT !.disabled = TRUE, !.loading = TRUE]

\* The finally block: generateBtn.disabled = false;
\* generateBtn.classList.remove('loading')
ReadyState(btn) == [btn EXCEPT !.disabled = FALSE, !.loading = FALSE]

\* updateProgress(current, total) on the indicator that showProgress()
\* has shown.
UpdateProgress(current, total) ==
    [shown |-> TRUE, current |-> current, total |-> total]

\* The user's click on the generate button, or the Enter key in an input,
\* submits the form: a disabled submit button submits nothing.
SubmitDispatched == ~button.disabled

\* The user changes the inputs.
EditForm ==
    /\ \E f \in Forms : f # form /\ form' = f
    /\ UNCHANGED <<button, handlers, submitted, inFlight,
                   errorsShown, successShown, progress, resetTimers>>
    /\ UNCHANGED <<distVars, dateVars, mergeVars, serverVars, billVars,
                   concVars>>

\* A submit event: handleSubmit runs up to its first await.  The messages
\* are cleared and the form is validated; with errors they are displayed
\* and the call ends; else the button enters the loading state, the
\* progress indicator is shown and the request is sent.
HandleSubmit ==
    /\ SubmitDispatched
    /\ submitted < MaxSubmissions
    /\ submitted' = submitted + 1
    /\ successShown' = FALSE
    /\ LET errors == ValidateForm(form)
           k == submitted + 1
       IN IF Len(errors) > 0
          THEN /\ errorsShown' = errors
               /\ progress' = HiddenProgress
               /\ handlers' = [handlers EXCEPT ![k] =
                     [pc |-> "rejected", numberOfBills |-> 0, i |-> 0,
                      outcome |-> ""]]
               /\ UNCHANGED <<button, inFlight>>
          ELSE /\ errorsShown' = <<>>
               /\ button' = LoadingState(button)
               /\ progress' = [HiddenProgress EXCEPT !.shown = TRUE]
               /\ handlers' = [handlers EXCEPT ![k] =
                     [pc |-> "fetching",
                      numberOfBills |->
                          ParseIntText(form.numberOfBills).v \div One,
                      i |-> 0, outcome |-> ""]]
               /\ inFlight' = inFlight \cup {k}
    /\ UNCHANGED <<form, resetTimers>>
    /\ UNCHANGED <<distVars, dateVars, mergeVars, serverVars, billVars,
                   concVars>>

\* The request of call k ends.  An ok response starts the progress loop
\* with updateProgress(1, n); every other outcome goes through the catch
\* block, which displays the message, and the finally block.
FetchSettles(k) ==
    /\ k \in inFlight
    /\ handlers[k].pc = "fetching"
    /\ inFlight' = inFlight \ {k}
    /\ \E outcome \in Outcomes :
         IF outcome = "ok"
         THEN /\ handlers' = [handlers EXCEPT ![k].pc = "progress",
                                              ![k].i = 1,
                                              ![k].outcome = outcome]
              /\ progress' = UpdateProgress(1, handlers[k].numberOfBills)
              /\ UNCHANGED <<button, errorsShown>>
         ELSE /\ handlers' = [handlers EXCEPT ![k].pc = "done",
                                              ![k].outcome = outcome]
              /\ progress' = HiddenProgress
              /\ errorsShown' = <<ErrorMessageOf(outcome)>>
              /\ button' = ReadyState(button)
    /\ UNCHANGED <<form, submitted, successShown, resetTimers>>
    /\ UNCHANGED <<distVars, dateVars, mergeVars, serverVars, billVars,
                   concVars>>

\* The 100 ms wait of the progress loop of call k is over: the next
\* update, or after the last one the success message, the timer that will
\* reset the form, and the finally block.
ProgressTimer(k) ==
    /\ handlers[k].pc = "progress"
    /\ IF handlers[k].i < handlers[k].numberOfBills
       THEN /\ handlers' = [handlers EXCEPT ![k].i = @ + 1]
            /\ progress' = UpdateProgress(handlers[k].i + 1,
                                          handlers[k].numberOfBills)
            /\ UNCHANGED <<button, successShown, resetTimers>>
       ELSE /\ handlers' = [handlers EXCEPT ![k].pc = "done"]
            /\ progress' = HiddenProgress
            /\ successShown' = TRUE
            /\ resetTimers' = resetTimers + 1
            /\ button' = ReadyState(button)
    /\ UNCHANGED <<form, submitted, inFlight, errorsShown>>
    /\ UNCHANGED <<distVars, dateVars, mergeVars, serverVars, billVars,
                   concVars>>

\* Five seconds after a success: form.reset() and hideSuccess().
ResetTimerFires ==
    /\ resetTimers > 0
    /\ resetTimers' = resetTimers - 1
    /\ form' = DefaultForm
    /\ successShown' = FALSE
    /\ UNCHANGED <<button, handlers, submitted, inFlight, errorsShown,
                   progress>>
    /\ UNCHANGED <<distVars, dateVars, mergeVars, serverVars, billVars,
                   concVars>>

PageNext ==
    \/ EditForm
    \/ HandleSubmit
    \/ \E k \in Submissions : FetchSettles(k)
    \/ \E k \in Submissions : ProgressTimer(k)
    \/ ResetTimerFires

PageInit ==
    PageIdle /\ DistIdle /\ DatesIdle /\ MergeIdle /\ ServerIdle
        /\ BillsIdle /\ ConcIdle

SpecPage == PageInit /\ [][PageNext]_vars

---------------------------------------------------------------------------
(* Properties of the page                                                  *)

\* The calls of handleSubmit that have sent a request and not finished.
Busy == { k \in Submissions : handlers[k].pc \in {"fetching", "progress"} }

\* While a call has sent its request and not finished, the button is
\* disabled; at most one call is in that state, and at most one request
\* is in flight; a rejected submission has no request.
ButtonGuardsRequest ==
    /\ Busy # {} => button.disabled
    /\ Cardinality(Busy) <= 1
    /\ Cardinality(inFlight) <= 1
    /\ inFlight \subseteq Busy

\* A submit event is handled in this step.
SubmitStep == submitted' = submitted + 1

\* A submission that fails the validation sends no request and leaves the
\* button as it is; a valid submission sends one request and disables
\* the button.
SubmissionSendsWhenValid ==
    SubmitStep =>
        IF Len(ValidateForm(form)) > 0
        THEN /\ inFlight' = inFlight
             /\ button' = button
             /\ handlers'[submitted'].pc = "rejected"
             /\ errorsShown' = ValidateForm(form)
        ELSE /\ inFlight' = inFlight \cup {submitted'}
             /\ submitted' \notin inFlight
             /\ button'.disabled

\* When a call that sent a request finishes, the button is enabled.
ReenabledAfterOutcome ==
    \A k \in Submissions :
        (k \in Busy /\ handlers'[k].pc = "done") =>
            /\ ~button'.disabled
            /\ handlers'[k].outcome \in Outcomes

\* C27: from the moment a valid submission is sent until its response has
\* been handled the generate button is disabled, and it is enabled again
\* after every outcome (success, HTTP error, network error); at most one
\* request of the page is in flight at any time; and a submission that
\* fails the client-side validation sends no request.
C27_OneRequestPerPage ==
    /\ []ButtonGuardsRequest
    /\ [][SubmissionSendsWhenValid /\ ReenabledAfterOutcome]_vars

\* C27 witness: the first submission ended with an HTTP error and the
\* button was enabled again; the second is in flight, the button disabled.
C27_Witness ==
    /\ submitted = 2
    /\ handlers[1].pc = "done" /\ handlers[1].outcome = "http error"
    /\ handlers[2].pc = "fetching"
    /\ inFlight = {2}
    /\ button.disabled

\* An invalid form has been submitted: its messages are shown, no request
\* was sent, and the button is enabled.
RejectedSubmission ==
    /\ submitted = 1 /\ handlers[1].pc = "rejected"
    /\ Len(errorsShown) > 0
    /\ inFlight = {} /\ ~button.disabled

\* Each of the outcomes has been handled and the button enabled again.
EveryOutcomeHandled ==
    /\ submitted = 2
    /\ handlers[1].pc = "done" /\ handlers[1].outcome = "network error"
    /\ handlers[2].pc = "done" /\ handlers[2].outcome = "ok"
    /\ successShown
    /\ ~button.disabled

====
